---- MODULE Spec2Model ----
(***************************************************************************)
(* QRGenPro: the QR generation engine (QREngine), the batch worker thread  *)
(* (BatchWorker) and the window's batch handlers (NeoQRPro), modelled from *)
(* src/src/QRGenPro.py.                                                    *)
(*                                                                         *)
(* Text is a sequence of one-character strings.                            *)
(***************************************************************************)
EXTENDS Integers, Sequences, FiniteSets, TLC

VARIABLES
    config,        \* NeoQRPro.config: the long-lived QRConfig object
    workers,       \* every BatchWorker constructed so far, in order
    files,         \* the paths of the files the batches have written
    edits,         \* number of settings edits made so far
    batch_worker,  \* NeoQRPro.batch_worker: 0 is None, else an index of workers
    start_enabled, \* batch_start_btn.isEnabled()
    stop_enabled,  \* batch_stop_btn.isEnabled()
    ui,            \* the UI thread: idle, or blocked in QThread.wait()
    posted,        \* finished signals queued for the UI thread
    gen,           \* the QREngine.generate call in hand, if any
    logo_on_disk,  \* os.path.exists(LogoFile), as it is now
    last,          \* history: the generate call completed before this one
    content_edit,  \* content_edit.toPlainText()
    current_qr,    \* NeoQRPro.current_qr: <<>> is None, else <<image>>
    preview,       \* preview_widget._pixmap: <<>> is None, else <<image>>
    log_lines,     \* number of messages in log_view
    status_label,  \* status_label.text(): the last message logged
    asked,         \* history: the last handler run and what it did
    preset,        \* the last call of a Presets function and its outcome
    preview_timer, \* preview_timer: -1 is inactive, else the ms left to run
    initial_shot,  \* QTimer.singleShot of line 657: -1 is fired, else ms left
    clock,         \* history: the time, the edits and the timer's generations
    last_bg_color, \* NeoQRPro._last_bg_color
    transparent_check, \* transparent_check.isChecked()
    bg_color_btn,  \* bg_color_btn.isEnabled()
    chosen,        \* history: the background colour chosen last
    written        \* history: what the last save_qr wrote, <<>> is nothing

batchVars == <<config, workers, files, edits>>
uiVars == <<batch_worker, start_enabled, stop_enabled, ui, posted>>
genVars == <<gen, logo_on_disk, last>>
winVars == <<content_edit, current_qr, preview, log_lines, status_label, asked>>
timerVars == <<preview_timer, initial_shot, clock>>
colorVars == <<last_bg_color, transparent_check, bg_color_btn, chosen>>
ctlVars == <<timerVars, colorVars, written>>
vars == <<config, workers, files, edits, batch_worker, start_enabled,
          stop_enabled, ui, posted, gen, logo_on_disk, last, content_edit,
          current_qr, preview, log_lines, status_label, asked, preset,
          preview_timer, initial_shot, clock, last_bg_color,
          transparent_check, bg_color_btn, chosen, written>>

(***************************************************************************)
(* Bounds of the model.                                                    *)
(***************************************************************************)
MaxItems == 3
MaxEdits == 1
MaxBatches == 2
LongLen == 41

(***************************************************************************)
(* Text helpers.                                                           *)
(***************************************************************************)
Whitespace == {" ", "\t"}
WordChars == {"a", "b", "_", "1", "2", "3", "4", "5", "6", "7", "8", "9"}

Min(a, b) == IF a <= b THEN a ELSE b

\* s[:n]
Take(s, n) == SubSeq(s, 1, Min(n, Len(s)))

RECURSIVE LStrip(_)
LStrip(s) ==
    IF s # <<>> /\ Head(s) \in Whitespace THEN LStrip(Tail(s)) ELSE s

RECURSIVE RStrip(_)
RStrip(s) ==
    IF s # <<>> /\ s[Len(s)] \in Whitespace
    THEN RStrip(SubSeq(s, 1, Len(s) - 1))
    ELSE s

\* str.strip()
Strip(s) == RStrip(LStrip(s))

SanitizeNothing(s) == s

\* re.sub(r"[^\w\-]", "_", s)
Sanitize(s) ==
    [i \in 1..Len(s) |-> IF s[i] \in WordChars \cup {"-"} THEN s[i] ELSE "_"]

\* str.lower() on the characters of the model
LowerChar(c) ==
    CASE c = "P" -> "p" [] c = "N" -> "n" [] c = "G" -> "g" [] c = "Q" -> "q"
      [] OTHER -> c
Lower(s) == [i \in 1..Len(s) |-> LowerChar(s[i])]

EndsWith(s, suffix) ==
    /\ Len(s) >= Len(suffix)
    /\ SubSeq(s, Len(s) - Len(suffix) + 1, Len(s)) = suffix

\* str(idx) for the indices of the model
Digits(n) == <<CASE n = 1 -> "1" [] n = 2 -> "2" [] n = 3 -> "3" [] n = 4 -> "4"
               [] n = 5 -> "5" [] n = 6 -> "6" [] n = 7 -> "7" [] n = 8 -> "8"
               [] OTHER -> "9">>

(***************************************************************************)
(* QRConfig and the settings the window can give it.                       *)
(***************************************************************************)
LabelL == "L - 7% (Fast)"
LabelM == "M - 15% (Standard)"
LabelQ == "Q - 25% (High)"
LabelH == "H - 30% (Maximum)"
Labels == {LabelL, LabelM, LabelQ, LabelH}

Black == "#000000"
White == "#ffffff"
Red == "#ff0000"
LogoFile == "logo.png"

\* QRConfig()
QRConfig ==
    [content |-> <<>>, box_size |-> 10, error_correction |-> LabelM,
     qr_color |-> Black, bg_color |-> White, transparent_bg |-> FALSE,
     auto_optimize |-> TRUE, quiet_zone |-> TRUE, logo_path |-> ""]

\* The fields BatchWorker.run copies from the template.
TemplateFields ==
    {"box_size", "error_correction", "qr_color", "bg_color", "transparent_bg",
     "auto_optimize", "quiet_zone", "logo_path"}

ContentEmpty(content) == content = <<>>

\* Line 135, not config.content.strip(): the content is blank.
ContentBlank(content) == Strip(content) = <<>>

(***************************************************************************)
(* QREngine. A pixel is <<r, g, b, a>>; an image is given by its side and  *)
(* the pixel at each (x, y), 0 <= x, y < side.                             *)
(***************************************************************************)
\* qrcode.constants, imported on line 31
ERROR_CORRECT_L == 1
ERROR_CORRECT_M == 0
ERROR_CORRECT_Q == 3
ERROR_CORRECT_H == 2

\* ERROR_LEVELS.get(label, ERROR_CORRECT_M)
ERROR_LEVELS(label) ==
    CASE label = LabelL -> ERROR_CORRECT_L
      [] label = LabelM -> ERROR_CORRECT_M
      [] label = LabelQ -> ERROR_CORRECT_Q
      [] label = LabelH -> ERROR_CORRECT_H
      [] OTHER -> ERROR_CORRECT_M

\* Lines 139-142: the level the code is encoded at; exists is what
\* os.path.exists(config.logo_path) answers on line 140.
RequestedEcc(cfg, exists) == ERROR_LEVELS(cfg.error_correction)

EffectiveEcc(cfg, exists) ==
    LET ecc == ERROR_LEVELS(cfg.error_correction)
    IN  IF cfg.logo_path # "" /\ exists /\ ecc < ERROR_CORRECT_Q
        THEN ERROR_CORRECT_Q
        ELSE ecc

\* Line 146: version=None if config.auto_optimize else 4
FixedVersion == 4
\* qrcode, best_fit(start=None): the search starts at version 1.
MinVersion == 1

\* qrcode, util.BIT_LIMIT_TABLE: the data bits of a symbol, 8 for each data
\* codeword of the version at the level. Of the 40 versions, the five the
\* texts of the model need: every one of them fits version 5 at every level.
DataCodewords(ecc, v) ==
    CASE ecc = ERROR_CORRECT_L -> <<19, 34, 55, 80, 108>>[v]
      [] ecc = ERROR_CORRECT_M -> <<16, 28, 44, 64, 86>>[v]
      [] ecc = ERROR_CORRECT_Q -> <<13, 22, 34, 48, 62>>[v]
      [] ecc = ERROR_CORRECT_H -> <<9, 16, 26, 36, 46>>[v]
BIT_LIMIT_TABLE(ecc, v) == 8 * DataCodewords(ecc, v)

\* qrcode, best_fit: the bits the data needs. The texts of the model are
\* encoded in byte mode: a 4-bit mode indicator, an 8-bit length (versions
\* 1 to 9) and 8 bits a character.
NeededBits(content) == 4 + 8 + 8 * Len(content)

\* Lines 145-152, qr.make(fit=True): best_fit(start=self.version) is
\* bisect_left(BIT_LIMIT_TABLE[ecc], needed_bits, start), the first version
\* from start on that holds the data. fit=True makes the version given on
\* line 146 the version the search starts at.
RECURSIVE best_fit(_, _, _)
best_fit(start, ecc, content) ==
    IF NeededBits(content) <= BIT_LIMIT_TABLE(ecc, start) THEN start
    ELSE best_fit(start + 1, ecc, content)

Version(cfg, ecc) ==
    best_fit(IF cfg.auto_optimize THEN MinVersion ELSE FixedVersion, ecc,
             cfg.content)

\* qrcode: a symbol of version v has 17 + 4v modules a side.
Modules(cfg, ecc) == 17 + 4 * Version(cfg, ecc)

\* Line 149: border=4 if config.quiet_zone else 1
QuietBorder == 4
PlainBorder == 1
Border(cfg) == IF cfg.quiet_zone THEN QuietBorder ELSE PlainBorder

\* qr.make_image(...).size
Side(cfg, ecc) == (Modules(cfg, ecc) + 2 * Border(cfg)) * cfg.box_size

\* The module matrix qr.make builds: a fixed function of the text and the
\* level (the encoder is the qrcode library's).
ModuleDark(cfg, ecc, row, col) ==
    (3 * row + 5 * col + Len(cfg.content) + ecc) % 3 = 0

\* ImageColor.getrgb
getrgb(color) ==
    CASE color = Black -> <<0, 0, 0>>
      [] color = White -> <<255, 255, 255>>
      [] color = Red -> <<255, 0, 0>>

Opaque(rgb) == <<rgb[1], rgb[2], rgb[3], 255>>

\* Lines 156-159: qr.make_image(fill_color, back_color).convert("RGBA")
Rendered(cfg, ecc, x, y) ==
    LET col == (x \div cfg.box_size) - Border(cfg)
        row == (y \div cfg.box_size) - Border(cfg)
        inside == /\ 0 <= col /\ col < Modules(cfg, ecc)
                  /\ 0 <= row /\ row < Modules(cfg, ecc)
    IN  IF inside /\ ModuleDark(cfg, ecc, row, col)
        THEN Opaque(getrgb(cfg.qr_color))
        ELSE Opaque(getrgb(cfg.bg_color))

Abs(n) == IF n < 0 THEN -n ELSE n

\* Line 171
tolerance == 0

\* Lines 175-177
MatchesBackground(px, bg_rgb) ==
    /\ Abs(px[1] - bg_rgb[1]) <= tolerance
    /\ Abs(px[2] - bg_rgb[2]) <= tolerance
    /\ Abs(px[3] - bg_rgb[3]) <= tolerance

\* Lines 162-183: the pixel after background extraction.
StrippedKeepsColor(cfg, px) ==
    IF cfg.transparent_bg /\ MatchesBackground(px, getrgb(cfg.bg_color))
    THEN <<px[1], px[2], px[3], 0>>
    ELSE px

Stripped(cfg, px) ==
    IF cfg.transparent_bg /\ MatchesBackground(px, getrgb(cfg.bg_color))
    THEN <<255, 255, 255, 0>>
    ELSE px

\* Pillow's paste with a mask: every band, alpha too, is blended by
\* (under * (255 - mask) + over * mask) / 255, rounded.
Div255(a) == (((a + 128) \div 256) + a + 128) \div 256

Blend(mask, under, over) == Div255(under * (255 - mask) + over * mask)

Paste(under, over, mask) ==
    [i \in 1..4 |-> Blend(mask, under[i], over[i])]

\* Line 196: int(min(w, h) * 0.22)
MaxDim(side) == (side * 22) \div 100

\* Image.thumbnail((max_dim, max_dim)): the size of the logo after it. The
\* logo is left alone when it fits; otherwise the longer side becomes
\* max_dim and the other keeps the aspect ratio, rounded to the nearer of its
\* floor and ceiling (the floor on a tie), at least 1.
RoundAspect(long, short, m) ==
    LET lo == (m * short) \div long
        hi == IF (m * short) % long = 0 THEN lo ELSE lo + 1
        \* |long/short - m/n|, times short * n
        err(n) == Abs(long * n - m * short)
        pick == IF lo = 0 THEN lo
                ELSE IF err(lo) * hi <= err(hi) * lo THEN lo ELSE hi
    IN  IF pick < 1 THEN 1 ELSE pick

ThumbnailSizeUnscaled(lw, lh, m) == <<lw, lh>>

ThumbnailSize(lw, lh, m) ==
    IF m >= lw /\ m >= lh THEN <<lw, lh>>
    ELSE IF lw <= lh THEN <<RoundAspect(lh, lw, m), m>>
    ELSE <<m, RoundAspect(lw, lh, m)>>

\* Line 200: the logo's 4-pixel white frame.
PadMargin == 4
PadSize(thumb) == <<thumb[1] + 2 * PadMargin, thumb[2] + 2 * PadMargin>>

\* Line 204
PadPos(side, pad) == <<(side - pad[1]) \div 2, (side - pad[2]) \div 2>>

\* Lines 201-202: the pixel of the pad at (px, py): white, with the logo
\* pasted at (4, 4) through its own alpha. The logos of the model are of one
\* colour and one alpha, which resampling leaves as they are.
PadPixel(logo, thumb, px, py) ==
    LET white == <<255, 255, 255, 255>>
        inLogo == /\ PadMargin <= px /\ px < PadMargin + thumb[1]
                  /\ PadMargin <= py /\ py < PadMargin + thumb[2]
    IN  IF inLogo
        THEN Paste(white, <<logo.rgb[1], logo.rgb[2], logo.rgb[3], logo.alpha>>,
                   logo.alpha)
        ELSE white

\* The area of the image the pad is pasted on.
InPad(side, logo, x, y) ==
    LET pad == PadSize(ThumbnailSize(logo.w, logo.h, MaxDim(side)))
        pos == PadPos(side, pad)
    IN  /\ pos[1] <= x /\ x < pos[1] + pad[1]
        /\ pos[2] <= y /\ y < pos[2] + pad[2]

\* Lines 192-209, QREngine.add_logo: the pixel at (x, y) of the result, under
\* being the pixel of qr_img there. A logo that cannot be opened or decoded
\* (logo.ok = FALSE) leaves the image as it is.
add_logo(under, side, logo, x, y) ==
    LET thumb == ThumbnailSize(logo.w, logo.h, MaxDim(side))
        pad == PadSize(thumb)
        pos == PadPos(side, pad)
    IN  IF logo.ok /\ InPad(side, logo, x, y)
        THEN LET over == PadPixel(logo, thumb, x - pos[1], y - pos[2])
             IN  Paste(under, over, over[4])
        ELSE under

\* Lines 193 and 208-209: the whole body of add_logo is inside try, and every
\* Exception returns qr_img; nothing of the logo reaches the caller.
AddLogoRaisesOnBadFile(logo) == ~logo.ok

AddLogoRaises(logo) == FALSE

\* What Image.open(logo_path) may yield.
Logos ==
    { [ok |-> FALSE, w |-> 0, h |-> 0, rgb |-> <<0, 0, 0>>, alpha |-> 0],
      [ok |-> TRUE, w |-> 4, h |-> 4, rgb |-> <<255, 0, 0>>, alpha |-> 255],
      [ok |-> TRUE, w |-> 100, h |-> 40, rgb |-> <<255, 0, 0>>, alpha |-> 128],
      [ok |-> TRUE, w |-> 40, h |-> 100, rgb |-> <<0, 0, 255>>, alpha |-> 0] }

NoLogo == [ok |-> FALSE, w |-> 0, h |-> 0, rgb |-> <<0, 0, 0>>, alpha |-> 0]

\* No generate call in hand.
NoCall ==
    [pc |-> "idle", cfg |-> QRConfig, ecc |-> ERROR_CORRECT_M, exists |-> FALSE,
     overlay |-> FALSE, logo |-> NoLogo, raised |-> "", data |-> <<>>]

\* Lines 133-189, QREngine.generate: the pixel at (x, y) of the image a
\* returned call g returns.
generate(g, x, y) ==
    LET encoded == [g.cfg EXCEPT !.content = g.data]
        stripped == Stripped(g.cfg, Rendered(encoded, g.ecc, x, y))
    IN  IF g.overlay THEN add_logo(stripped, Side(g.cfg, g.ecc), g.logo, x, y)
        ELSE stripped

\* The configurations generate is called with.
LongContent == [i \in 1..LongLen |-> "a"]
Contents == {<<>>, <<" ", "\t">>, <<" ", "a">>, <<"a", "b">>, LongContent}
GenBoxSizes == {1, 2}
AllLabels == Labels \cup {"?"}

EccConfigs ==
    { [QRConfig EXCEPT !.content = c, !.box_size = 1, !.error_correction = e,
                       !.logo_path = l, !.auto_optimize = a]
        : c \in Contents, e \in AllLabels, l \in {"", LogoFile},
          a \in BOOLEAN }

PixelConfigs ==
    { [QRConfig EXCEPT !.content = <<"a", "b">>, !.box_size = b,
                       !.qr_color = q[1], !.bg_color = q[2],
                       !.transparent_bg = t, !.quiet_zone = z, !.logo_path = l]
        : b \in GenBoxSizes,
          q \in {<<Black, White>>, <<Red, Black>>, <<White, White>>},
          t \in BOOLEAN, z \in BOOLEAN, l \in {"", LogoFile} }

GenConfigs == EccConfigs \cup PixelConfigs

\* Lines 145-151: the data of the QRCode object the matrix is made from. The
\* object is created in the call, so it holds the content of this call alone,
\* whatever the call before (prev) encoded.
QRDataAccumulated(prev, content) == prev.data \o content

QRData(prev, content) == content

\* Lines 135-159: the call up to the rendered image. encFail: the encoder
\* raises (the data does not fit, or the library fails).
generate_call(cfg, encFail) ==
    /\ gen.pc = "idle"
    /\ gen' =
         IF ContentBlank(cfg.content)
         THEN [NoCall EXCEPT !.pc = "raised", !.cfg = cfg,
                             !.raised = "ValueError"]
         ELSE IF encFail
         THEN [NoCall EXCEPT !.pc = "raised", !.cfg = cfg,
                             !.exists = logo_on_disk,
                             !.ecc = EffectiveEcc(cfg, logo_on_disk),
                             !.raised = "DataOverflowError"]
         ELSE [NoCall EXCEPT !.pc = "rendered", !.cfg = cfg,
                             !.exists = logo_on_disk,
                             !.ecc = EffectiveEcc(cfg, logo_on_disk),
                             !.data = QRData(last, cfg.content)]
    /\ UNCHANGED logo_on_disk

\* Lines 162-189: background extraction, the logo, return. logo is what
\* Image.open yields if the file is opened.
generate_return(logo) ==
    /\ gen.pc = "rendered"
    /\ LET overlay == gen.cfg.logo_path # "" /\ logo_on_disk
       IN  /\ overlay \/ logo = NoLogo
           /\ gen' = IF overlay /\ AddLogoRaises(logo)
                     THEN [gen EXCEPT !.pc = "raised", !.raised = "LogoError",
                                      !.overlay = overlay, !.logo = logo]
                     ELSE [gen EXCEPT !.pc = "returned", !.overlay = overlay,
                                      !.logo = logo]
    /\ UNCHANGED logo_on_disk

\* The caller has taken the image or the exception.
generate_done ==
    /\ gen.pc \in {"raised", "returned"}
    /\ gen' = NoCall
    /\ UNCHANGED logo_on_disk

\* Another process creates or deletes the logo file.
logo_file_changes ==
    /\ logo_on_disk' = ~logo_on_disk
    /\ UNCHANGED gen

(***************************************************************************)
(* Presets. A call yields the text returned, or the ValueError raised.     *)
(***************************************************************************)
Returns(text) == [raised |-> "", value |-> text]
Raises(message) == [raised |-> message, value |-> <<>>]

StartsWith(s, prefix) ==
    Len(s) >= Len(prefix) /\ SubSeq(s, 1, Len(prefix)) = prefix

RECURSIVE Join(_, _)
\* sep.join(parts)
Join(parts, sep) ==
    IF parts = <<>> THEN <<>>
    ELSE IF Len(parts) = 1 THEN parts[1]
    ELSE parts[1] \o sep \o Join(Tail(parts), sep)

\* re.sub(r"[^\d+]", "", number)
DigitChars == {"0", "1", "2", "3", "4", "5", "6", "7", "8", "9"}
CleanDigitsOnly(number) == SelectSeq(number, LAMBDA c : c \in DigitChars)

Clean(number) == SelectSeq(number, LAMBDA c : c \in DigitChars \cup {"+"})

\* urllib.parse.quote(text): letters, digits and _ . - ~ / stay, every other
\* character becomes % and the two hex digits of its code.
QuoteSafe ==
    DigitChars \cup {"a", "b", "h", "i", "x", "A", "_", ".", "-", "~", "/"}
QuoteChar(c) ==
    CASE c \in QuoteSafe -> <<c>>
      [] c = " " -> <<"%", "2", "0">>
      [] c = "&" -> <<"%", "2", "6">>
      [] c = "?" -> <<"%", "3", "F">>
      [] c = "=" -> <<"%", "3", "D">>
      [] c = "%" -> <<"%", "2", "5">>
      [] c = "+" -> <<"%", "2", "B">>
      [] c = ":" -> <<"%", "3", "A">>
RECURSIVE quote(_)
quote(text) ==
    IF text = <<>> THEN <<>> ELSE QuoteChar(Head(text)) \o quote(Tail(text))

HttpPrefix == <<"h", "t", "t", "p", ":", "/", "/">>
HttpsPrefix == <<"h", "t", "t", "p", "s", ":", "/", "/">>

\* Lines 260-266
website(url) ==
    IF url = <<>> THEN Raises("URL is required")
    ELSE IF StartsWith(url, HttpPrefix) \/ StartsWith(url, HttpsPrefix)
         THEN Returns(url)
         ELSE Returns(HttpsPrefix \o url)

NoPass == <<"n", "o", "p", "a", "s", "s">>

WifiKeepsSecurity(ssid, password, security, hidden) ==
    IF ssid = <<>> THEN Raises("SSID is required")
    ELSE Returns(<<"W", "I", "F", "I", ":", "T", ":">> \o security \o <<";", "S", ":">> \o ssid \o <<";", "P", ":">> \o password
                 \o <<";", "H", ":">> \o (IF hidden THEN <<"t", "r", "u", "e">> ELSE <<"f", "a", "l", "s", "e">>) \o <<";", ";">>)

\* Lines 224-230
wifi(ssid, password, security, hidden) ==
    IF ssid = <<>> THEN Raises("SSID is required")
    ELSE LET sec == IF password # <<>> THEN security ELSE NoPass
             hidden_str == IF hidden THEN <<"t", "r", "u", "e">> ELSE <<"f", "a", "l", "s", "e">>
         IN  Returns(<<"W", "I", "F", "I", ":", "T", ":">> \o sec \o <<";", "S", ":">> \o ssid \o <<";", "P", ":">> \o password
                     \o <<";", "H", ":">> \o hidden_str \o <<";", ";">>)

\* Lines 232-242
email(address, subject, body) ==
    IF address = <<>> THEN Raises("Email address is required")
    ELSE LET params ==
                 (IF subject # <<>> THEN <<<<"s", "u", "b", "j", "e", "c", "t", "=">> \o quote(subject)>> ELSE <<>>)
                 \o (IF body # <<>> THEN <<<<"b", "o", "d", "y", "=">> \o quote(body)>> ELSE <<>>)
             query == IF params # <<>> THEN <<"?">> \o Join(params, <<"&">>)
                      ELSE <<>>
         IN  Returns(<<"m", "a", "i", "l", "t", "o", ":">> \o address \o query)

\* Lines 244-249
phone(number) ==
    IF number = <<>> THEN Raises("Phone number is required")
    ELSE Returns(<<"t", "e", "l", ":">> \o Clean(number))

\* Lines 251-258
sms(number, message) ==
    IF number = <<>> THEN Raises("Phone number is required")
    ELSE IF message # <<>>
         THEN Returns(<<"s", "m", "s", ":">> \o Clean(number) \o <<"?", "b", "o", "d", "y", "=">> \o quote(message))
         ELSE Returns(<<"s", "m", "s", ":">> \o Clean(number))

\* Lines 268-286; a line of the card is one token here.
vcard(name, tel, mail, org, title) ==
    IF name = <<>> THEN Raises("Name is required")
    ELSE Returns(Join(
             << <<"BEGIN:VCARD">>, <<"VERSION:3.0">>, <<"FN:">> \o name >>
             \o (IF tel # <<>> THEN << <<"TEL:">> \o tel >> ELSE <<>>)
             \o (IF mail # <<>> THEN << <<"EMAIL:">> \o mail >> ELSE <<>>)
             \o (IF org # <<>> THEN << <<"ORG:">> \o org >> ELSE <<>>)
             \o (IF title # <<>> THEN << <<"TITLE:">> \o title >> ELSE <<>>)
             \o << <<"END:VCARD">> >>,
             <<"\n">>))

(***************************************************************************)
(* NeoQRPro: the content box, the preview and the activity log.            *)
(***************************************************************************)
MaxLog == 2

NoAsk ==
    [op |-> "", empty |-> FALSE, failed |-> FALSE, logged |-> FALSE,
     shown |-> <<>>]

NoPreset == [fn |-> "", args |-> <<>>, out |-> Returns(<<>>)]

\* Line 761: the text the content box is built with.
ExampleUrl ==
    <<"h", "t", "t", "p", "s", ":", "/", "/", "e", "x", "a", "m", "p", "l",
      "e", ".", "c", "o", "m">>

\* Line 645, preview_timer.setInterval(150), and line 657, the delay of the
\* first preview, in milliseconds.
Interval == 150
InitialDelay == 100

\* Nothing has been typed and the timer has generated nothing yet. edited is
\* the time of the last _schedule_preview (-1: none), text the content box
\* after it, bursts the number of runs of edits less than Interval apart,
\* several whether the last run has edits at different times. shots is the number
\* of generations the timer made; for the last of them, shot_at is its time,
\* shot_edit the time of the edit before it, shot_text the content box after
\* that edit, shot_several whether that edit ended a run of several, and
\* used the content box the generation read.
NoClock ==
    [now |-> 0, edited |-> -1, text |-> <<>>, bursts |-> 0,
     several |-> FALSE, shots |-> 0, shot_at |-> -1, shot_edit |-> -1,
     shot_text |-> <<>>, shot_several |-> FALSE, used |-> <<>>]

\* Lines 637-657 and the widgets as built.
WinInit ==
    /\ content_edit = ExampleUrl
    /\ current_qr = <<>>
    /\ preview = <<>>
    /\ log_lines = 0
    /\ status_label = ""
    /\ asked = NoAsk
    /\ preview_timer = -1
    /\ initial_shot = InitialDelay
    /\ clock = NoClock
    /\ last_bg_color = QRConfig.bg_color
    /\ transparent_check = FALSE
    /\ bg_color_btn = TRUE
    /\ chosen = QRConfig.bg_color
    /\ written = <<>>

\* A timer start that leaves a running timer alone.
TimerStartKeepsRunning ==
    IF preview_timer >= 0 THEN preview_timer ELSE Interval

\* QTimer.start() on a single-shot timer: it runs for the whole interval
\* from now, whether it was running or not.
TimerStart == Interval

\* The edit made now starts a new run of edits.
NewBurst == clock.edited = -1 \/ clock.now - clock.edited >= Interval

\* Lines 1100-1102, NeoQRPro._schedule_preview, called when the content box
\* holds text.
schedule_preview(text) ==
    /\ preview_timer' = TimerStart
    /\ clock' = [clock EXCEPT
                    !.edited = clock.now,
                    !.text = text,
                    !.bursts = IF NewBurst THEN @ + 1 ELSE @,
                    !.several = IF NewBurst THEN FALSE
                                ELSE @ \/ clock.now > clock.edited]
    /\ UNCHANGED initial_shot

\* Lines 1301-1304, NeoQRPro._log
log(message) ==
    /\ log_lines' = log_lines + 1
    /\ status_label' = message

Silent == UNCHANGED <<log_lines, status_label>>

\* The handler op has run: empty, a required field was empty; failed, the
\* generation failed; shown is what the preview showed before.
Asked(op, empty, failed) ==
    asked' = [op |-> op, empty |-> empty, failed |-> failed,
              logged |-> log_lines' # log_lines, shown |-> preview]

\* The user types in the content box.
WinTexts == {<<>>, <<" ">>, <<" ", "a">>}

edit_content(text) ==
    /\ content_edit' = text
    /\ schedule_preview(text)
    /\ Silent
    /\ Asked("edit", FALSE, FALSE)
    /\ UNCHANGED <<config, current_qr, preview>>

\* The image QREngine.generate returns for cfg.
Image(cfg) == <<cfg>>

\* Lines 1306-1353, NeoQRPro._do_generate_preview. outcome: "ok"; "generate",
\* QREngine.generate raises; "convert", the conversion to a pixmap raises.
do_generate_preview(outcome) ==
    LET content == Strip(content_edit)
        cfg == [config EXCEPT !.content = content,
                              !.transparent_bg = transparent_check]
    IN  IF content = <<>>
        THEN /\ preview' = <<>>
             /\ current_qr' = <<>>
             /\ Silent
             /\ Asked("preview", TRUE, FALSE)
             /\ UNCHANGED <<config, content_edit>>
        ELSE /\ config' = cfg
             /\ CASE outcome = "ok" ->
                       /\ current_qr' = Image(cfg)
                       /\ preview' = Image(cfg)
                       /\ log("QR code ready")
                  [] outcome = "generate" ->
                       /\ current_qr' = current_qr
                       /\ preview' = <<>>
                       /\ log("Could not generate preview")
                  [] outcome = "convert" ->
                       /\ current_qr' = Image(cfg)
                       /\ preview' = <<>>
                       /\ log("Could not generate preview")
             /\ Asked("preview", FALSE, outcome # "ok")
             /\ UNCHANGED content_edit

\* A preset handler puts the text of the preset in the content box, or logs
\* the ValueError.
SetPreset(op, out) ==
    /\ IF out.raised = ""
       THEN content_edit' = out.value /\ schedule_preview(out.value) /\ Silent
       ELSE /\ content_edit' = content_edit
            /\ log(out.raised)
            /\ UNCHANGED timerVars
    /\ Asked(op, FALSE, FALSE)
    /\ UNCHANGED <<config, current_qr, preview>>

\* The handler returns without a word.
Skipped(op, empty) ==
    /\ Silent
    /\ Asked(op, empty, FALSE)
    /\ UNCHANGED <<config, content_edit, current_qr, preview, timerVars>>

\* Lines 1226-1231; ok is the dialog's answer
preset_website(ok, url) ==
    IF ok /\ url # <<>> THEN SetPreset("website", website(url))
    ELSE Skipped("website", ok)

\* Lines 1233-1243
preset_wifi(ok, ssid, password) ==
    IF ~ok \/ ssid = <<>> THEN Skipped("wifi", ok)
    ELSE SetPreset("wifi", wifi(ssid, password, <<"W", "P", "A">>, FALSE))

\* Lines 1245-1254
preset_email(ok, address, subject, body) ==
    IF ~ok \/ address = <<>> THEN Skipped("email", ok)
    ELSE SetPreset("email", email(address, subject, body))

\* Lines 1256-1262
preset_phone(ok, number) ==
    IF ok /\ number # <<>> THEN SetPreset("phone", phone(number))
    ELSE Skipped("phone", ok)

\* Lines 1264-1272
preset_sms(ok, number, message) ==
    IF ~ok \/ number = <<>> THEN Skipped("sms", ok)
    ELSE SetPreset("sms", sms(number, message))

\* Lines 1274-1284
preset_vcard(ok, name, tel, mail, org) ==
    IF ~ok \/ name = <<>> THEN Skipped("vcard", ok)
    ELSE SetPreset("vcard", vcard(name, tel, mail, org, <<>>))

\* Lines 1508-1512, NeoQRPro._batch_start with no item in the batch list.
batch_start_no_items ==
    /\ log("Please add items to process")
    /\ Asked("batch", TRUE, FALSE)
    /\ UNCHANGED <<config, content_edit, current_qr, preview, timerVars>>

\* What a handler did with current_qr: image is the image it used, <<>> if
\* it refused; shown is what the preview showed then.
Used(op, image) == [op |-> op, image |-> image, shown |-> preview]

\* The three handlers leave the images and the timers as they are.
UseRest == <<config, content_edit, current_qr, preview, timerVars>>

\* Lines 1355-1382, NeoQRPro.save_qr. path is the file dialog's answer, <<>>
\* if cancelled; ok, the image could be written.
save_qr(path, ok) ==
    IF current_qr = <<>>
    THEN /\ log("Please generate a QR code first before saving")
         /\ written' = Used("save", <<>>)
         /\ Asked("save", TRUE, FALSE)
         /\ UNCHANGED UseRest
    ELSE IF path = <<>>
    THEN /\ Silent
         /\ Asked("save", FALSE, FALSE)
         /\ UNCHANGED <<UseRest, written>>
    ELSE IF ok
    THEN /\ log("Saved successfully")
         /\ written' = Used("save", current_qr)
         /\ Asked("save", FALSE, FALSE)
         /\ UNCHANGED UseRest
    ELSE /\ log("Could not save file")
         /\ Asked("save", FALSE, TRUE)
         /\ UNCHANGED <<UseRest, written>>

\* Lines 1384-1396, NeoQRPro.copy_image
copy_image(ok) ==
    IF current_qr = <<>>
    THEN /\ log("Please generate a QR code first before copying")
         /\ written' = Used("copy", <<>>)
         /\ Asked("copy", TRUE, FALSE)
         /\ UNCHANGED UseRest
    ELSE IF ok
    THEN /\ log("QR code image copied to clipboard")
         /\ written' = Used("copy", current_qr)
         /\ Asked("copy", FALSE, FALSE)
         /\ UNCHANGED UseRest
    ELSE /\ log("Could not copy to clipboard")
         /\ Asked("copy", FALSE, TRUE)
         /\ UNCHANGED <<UseRest, written>>

\* Lines 1406-1428, NeoQRPro.test_qr: the dialog shows current_qr.
test_qr ==
    IF current_qr = <<>>
    THEN /\ log("Please generate a QR code first before testing")
         /\ written' = Used("test", <<>>)
         /\ Asked("test", TRUE, FALSE)
         /\ UNCHANGED UseRest
    ELSE /\ Silent
         /\ written' = Used("test", current_qr)
         /\ Asked("test", FALSE, FALSE)
         /\ UNCHANGED UseRest

(***************************************************************************)
(* NeoQRPro: the timers. Time is counted in milliseconds; a handler takes  *)
(* no time, and a timer's timeout is delivered at the moment it is due,    *)
(* before any other event of that moment.                                  *)
(***************************************************************************)
TimeStep == 50
MaxNow == 500

Due == preview_timer = 0 \/ initial_shot = 0

Running == {t \in {preview_timer, initial_shot} : t > 0}

\* The time to pass next: a step, or less if a timer is due before.
Elapse ==
    IF \E t \in Running : t < TimeStep
    THEN CHOOSE t \in Running : \A u \in Running : t <= u
    ELSE TimeStep

\* Time passes and no event is handled.
tick ==
    /\ ~Due
    /\ clock.now + Elapse <= MaxNow
    /\ clock' = [clock EXCEPT !.now = @ + Elapse]
    /\ preview_timer' = IF preview_timer > 0 THEN preview_timer - Elapse
                        ELSE preview_timer
    /\ initial_shot' = IF initial_shot > 0 THEN initial_shot - Elapse
                       ELSE initial_shot
    /\ UNCHANGED <<config, winVars>>

\* Line 646: preview_timer.timeout runs _do_generate_preview.
timeout(outcome) ==
    /\ preview_timer = 0
    /\ do_generate_preview(outcome)
    /\ preview_timer' = -1
    /\ clock' = [clock EXCEPT
                    !.shots = @ + 1,
                    !.shot_at = clock.now,
                    !.shot_edit = clock.edited,
                    !.shot_text = clock.text,
                    !.shot_several = clock.several,
                    !.used = content_edit]
    /\ UNCHANGED initial_shot

\* Line 657: the first preview, InitialDelay after the window is built.
initial_timeout(outcome) ==
    /\ initial_shot = 0
    /\ do_generate_preview(outcome)
    /\ initial_shot' = -1
    /\ UNCHANGED <<preview_timer, clock>>

\* Line 696: Ctrl+G runs _do_generate_preview at once.
shortcut_generate(outcome) ==
    /\ ~Due
    /\ do_generate_preview(outcome)
    /\ UNCHANGED timerVars

\* The user types while no timeout is waiting to be delivered.
type_content(text) ==
    /\ ~Due
    /\ edit_content(text)

(***************************************************************************)
(* NeoQRPro: the background colour and the Transparent check box.          *)
(***************************************************************************)
\* The part of the window the colour handlers read and write.
Colors ==
    [cfg |-> config, last |-> last_bg_color, check |-> transparent_check,
     btn |-> bg_color_btn]

\* _on_transparent_changed without line 1129: the colour in use is not
\* remembered when transparency is switched on.
OnTransparentChangedForgets(st) ==
    IF st.check
    THEN [st EXCEPT !.cfg.transparent_bg = TRUE, !.btn = FALSE]
    ELSE [st EXCEPT !.cfg.transparent_bg = FALSE, !.cfg.bg_color = st.last,
                    !.btn = TRUE]

\* Lines 1122-1137, NeoQRPro._on_transparent_changed, before it schedules
\* the preview. _last_bg_color is a colour name, never an empty string.
on_transparent_changed(st) ==
    IF st.check
    THEN [st EXCEPT !.cfg.transparent_bg = TRUE, !.last = st.cfg.bg_color,
                    !.btn = FALSE]
    ELSE [st EXCEPT !.cfg.transparent_bg = FALSE, !.cfg.bg_color = st.last,
                    !.btn = TRUE]

\* transparent_check.setChecked(value): stateChanged is emitted, and the
\* handler runs, only when the state changes.
setChecked(st, value) ==
    IF st.check = value THEN st
    ELSE on_transparent_changed([st EXCEPT !.check = value])

\* The handler op leaves the window in st and schedules the preview.
ColorsBecome(op, st) ==
    /\ config' = st.cfg
    /\ last_bg_color' = st.last
    /\ transparent_check' = st.check
    /\ bg_color_btn' = st.btn
    /\ schedule_preview(content_edit)
    /\ Silent
    /\ Asked(op, FALSE, FALSE)
    /\ UNCHANGED <<content_edit, current_qr, preview, written>>

\* The user clicks the Transparent check box.
click_transparent ==
    /\ ColorsBecome("transparent", setChecked(Colors, ~transparent_check))
    /\ UNCHANGED chosen

\* Lines 1184-1192, NeoQRPro._pick_bg_color; the button is clicked only
\* while it is enabled. valid: the colour dialog was not cancelled.
pick_bg_color(color, valid) ==
    /\ bg_color_btn
    /\ IF valid
       THEN /\ ColorsBecome("bg color",
                    setChecked([Colors EXCEPT !.cfg.bg_color = color], FALSE))
            /\ chosen' = color
       ELSE /\ Silent
            /\ Asked("bg color", FALSE, FALSE)
            /\ UNCHANGED <<config, content_edit, current_qr, preview, written,
                           timerVars, colorVars>>

\* Lines 1164-1173, NeoQRPro._reset_colors
reset_colors ==
    /\ ColorsBecome("reset colors",
           [setChecked([Colors EXCEPT !.cfg.qr_color = Black,
                                      !.cfg.bg_color = White,
                                      !.last = White], FALSE)
               EXCEPT !.btn = TRUE])
    /\ chosen' = White

(***************************************************************************)
(* BatchWorker.                                                            *)
(***************************************************************************)
\* A naming template is a sequence of tokens: a literal character, or one of
\* the replacement fields below. {name} stands for any field that
\* str.format cannot resolve from index= and content= (it raises KeyError).
FieldIndex == "{index}"
FieldContent == "{content}"
FieldOther == "{name}"

NamingDefault == <<"q", "r", "_", FieldIndex>>
NamingContent == <<FieldContent>>
NamingBad == <<"q", FieldOther>>
NamingUpper == <<FieldContent, ".", "P", "N", "G">>
NamingAbsolute == <<"/", "q", FieldIndex>>
Namings ==
    {NamingDefault, NamingContent, NamingBad, NamingUpper, NamingAbsolute}

Formats == {"PNG", "JPEG"}

\* Item texts a batch list is made of.
LongItem == [i \in 1..LongLen |-> IF i = 3 THEN "/" ELSE "a"]
ItemPool == {<<>>, <<" ">>, <<"a", "-", "/">>, LongItem}

RECURSIVE SeqsUpTo(_, _)
SeqsUpTo(S, n) ==
    IF n = 0 THEN {<<>>}
    ELSE LET shorter == SeqsUpTo(S, n - 1)
         IN  shorter \cup
             {Append(q, x) : q \in {r \in shorter : Len(r) = n - 1}, x \in S}

FormatError == <<"KeyError">>

\* The template with its fields replaced.
RECURSIVE FormatFields(_, _, _)
FormatFields(naming, idx, safe_content) ==
    IF naming = <<>> THEN <<>>
    ELSE (IF Head(naming) = FieldIndex THEN Digits(idx)
          ELSE IF Head(naming) = FieldContent THEN safe_content
          ELSE <<Head(naming)>>)
         \o FormatFields(Tail(naming), idx, safe_content)

\* self.naming.format(index=idx, content=safe_content)
Format(naming, idx, safe_content) ==
    IF \E i \in 1..Len(naming) : naming[i] = FieldOther THEN FormatError
    ELSE FormatFields(naming, idx, safe_content)

Ext(fmt) == IF fmt = "PNG" THEN <<".", "p", "n", "g">> ELSE <<".", "j", "p", "g">>

\* Lines 337-341: the file name of item idx.
FileName(naming, fmt, idx, item) ==
    LET name == Format(naming, idx, Sanitize(Take(item, 20)))
    IN  IF name = FormatError THEN FormatError
        ELSE IF EndsWith(Lower(name), Ext(fmt)) THEN name
        ELSE name \o Ext(fmt)

\* BatchWorker.__init__. config is a reference to the caller's QRConfig
\* object, so the worker reads the variable config itself; template, used and
\* saved and stopAt are history variables (the settings at construction, the
\* clone each item was generated from, the names passed to img.save,
\* success + failed when stop() was first called, and the events emitted and
\* the files saved by then).
BatchWorker(items, cfg, naming, fmt) ==
    [items |-> items, naming |-> naming, fmt |-> fmt, stop |-> FALSE,
     pc |-> "new", idx |-> 1, success |-> 0, failed |-> 0,
     cfg |-> cfg, events |-> <<>>,
     template |-> cfg, used |-> <<>>, saved |-> <<>>, stopAt |-> -1,
     atStop |-> [events |-> <<>>, saved |-> 0]]

Event(type, a, b, text, reason) ==
    [type |-> type, a |-> a, b |-> b, text |-> text, reason |-> reason]

\* QRConfig(content=item, box_size=self.config.box_size, ...)
Clone(template, item) == [template EXCEPT !.content = item]

\* QThread.start()
start(w) ==
    /\ workers[w].pc = "new"
    /\ workers' = [workers EXCEPT ![w].pc = "check"]

\* BatchWorker.stop
stop(w) ==
    workers' = [workers EXCEPT
        ![w].stop = TRUE,
        ![w].stopAt = IF @ = -1 THEN workers[w].success + workers[w].failed
                      ELSE @,
        ![w].atStop = IF workers[w].stopAt = -1
                      THEN [events |-> workers[w].events,
                            saved |-> Len(workers[w].saved)]
                      ELSE @]

\* Lines 319-334: the loop head. The loop ends when the items are exhausted
\* or the stop flag is seen set; otherwise the item's QRConfig is built from
\* the fields of self.config as they are now.
LoopEndsIgnoringStop(wk) == wk.idx > Len(wk.items)

LoopEnds(wk) == wk.idx > Len(wk.items) \/ wk.stop

RunCheck(w) ==
    LET wk == workers[w]
    IN  /\ wk.pc = "check"
        /\ IF LoopEnds(wk)
           THEN workers' = [workers EXCEPT ![w].pc = "finish"]
           ELSE workers' = [workers EXCEPT
                    ![w].pc = "item",
                    ![w].cfg = Clone(config, wk.items[wk.idx])]
        /\ UNCHANGED <<config, files, edits>>

\* The folder picked for the batch.
OutputDir == <<"o", "u", "t">>

\* Line 343, self.output_dir / name: an absolute name replaces the directory.
TargetPath(name) ==
    IF name # <<>> /\ Head(name) = "/" THEN name
    ELSE OutputDir \o <<"/">> \o name

\* Lines 337-343: the name the item is saved under.
ItemFileName(wk) == FileName(wk.naming, wk.fmt, wk.idx, wk.items[wk.idx])

\* Lines 335-347: what generating and saving the item raises, "" if nothing.
\* encFail: the encoder raises (data overflow, library failure); writeFail:
\* img.save raises.
ItemError(wk, encFail, writeFail) ==
    IF ContentBlank(wk.cfg.content) THEN "Content cannot be empty"
    ELSE IF encFail THEN "DataOverflowError"
    ELSE IF ItemFileName(wk) = FormatError
         THEN "KeyError"
    ELSE IF writeFail THEN "OSError"
    ELSE ""

\* Lines 350-352: the except branch.
OnItemErrorAborts(wk, e) ==
    [wk EXCEPT
        !.failed = @ + 1,
        !.events = Append(@, Event("error", 0, 0, Take(wk.items[wk.idx], 30), e)),
        !.pc = "finish"]

OnItemErrorSilent(wk, e) == [wk EXCEPT !.failed = @ + 1, !.pc = "progress"]

OnItemError(wk, e) ==
    [wk EXCEPT
        !.failed = @ + 1,
        !.events = Append(@, Event("error", 0, 0, Take(wk.items[wk.idx], 30), e)),
        !.pc = "progress"]

\* Lines 343-349: the file is written and the item counted.
OnItemSaved(wk) ==
    [wk EXCEPT
        !.success = @ + 1,
        !.saved = Append(@, [idx |-> wk.idx, name |-> ItemFileName(wk)]),
        !.pc = "progress"]

\* Lines 335-352: generate, save, count.
RunItem(w) ==
    LET wk == workers[w]
    IN  /\ wk.pc = "item"
        /\ \E encFail \in BOOLEAN, writeFail \in BOOLEAN :
              LET e == ItemError(wk, encFail, writeFail)
                  ran == [wk EXCEPT !.used = Append(@, wk.cfg)]
              IN  IF e # ""
                  THEN /\ workers' = [workers EXCEPT ![w] = OnItemError(ran, e)]
                       /\ UNCHANGED files
                  ELSE /\ workers' = [workers EXCEPT ![w] = OnItemSaved(ran)]
                       /\ files' = files \cup {TargetPath(ItemFileName(wk))}
        /\ UNCHANGED <<config, edits>>

\* Line 354: self.progress.emit(idx, total, item[:40])
ProgressEventZeroBased(wk) ==
    Event("progress", wk.idx - 1, Len(wk.items), Take(wk.items[wk.idx], 40), "")

ProgressEvent(wk) ==
    Event("progress", wk.idx, Len(wk.items), Take(wk.items[wk.idx], 40), "")

RunProgress(w) ==
    LET wk == workers[w]
    IN  /\ wk.pc = "progress"
        /\ workers' = [workers EXCEPT
                ![w].events = Append(@, ProgressEvent(wk)),
                ![w].idx = @ + 1,
                ![w].pc = "check"]
        /\ UNCHANGED <<config, files, edits>>

FinishedEventAsProgress(wk) ==
    Event("progress", wk.success, wk.failed, <<>>, "")

\* Line 356: self.finished.emit(success, failed); the thread then exits.
FinishedEvent(wk) == Event("finished", wk.success, wk.failed, <<>>, "")

RunFinish(w) ==
    LET wk == workers[w]
    IN  /\ wk.pc = "finish"
        /\ workers' = [workers EXCEPT
                ![w].events = Append(@, FinishedEvent(wk)),
                ![w].pc = "exited"]
        /\ UNCHANGED <<config, files, edits>>

\* BatchWorker.run, one step of it.
run(w) == RunCheck(w) \/ RunItem(w) \/ RunProgress(w) \/ RunFinish(w)

\* The UI thread between two handlers.
UiIdle == [pc |-> "idle", lines |-> <<>>, naming |-> <<>>, fmt |-> ""]

\* QThread.isRunning()
isRunning(wk) == wk.pc \in {"check", "item", "progress", "finish"}

(***************************************************************************)
(* The settings handlers of the window that write self.config.             *)
(***************************************************************************)
BoxSizes == {5, 10}
EccChoices == {LabelM, LabelH}
\* Texts of the batch naming field: as constructed (line 978), and emptied.
NamingTexts == {NamingDefault, <<>>}

on_size_changed(value) == config' = [config EXCEPT !.box_size = value]

on_ecc_changed(value) == config' = [config EXCEPT !.error_correction = value]

select_logo(path) == config' = [config EXCEPT !.logo_path = path]

clear_logo == config' = [config EXCEPT !.logo_path = ""]

\* One edit of a setting of self.config by the user.
Edit ==
    /\ edits < MaxEdits
    /\ edits' = edits + 1
    /\ \/ \E value \in BoxSizes \ {config.box_size} : on_size_changed(value)
       \/ \E value \in EccChoices \ {config.error_correction} :
             on_ecc_changed(value)
       \/ config.logo_path = "" /\ select_logo(LogoFile)
       \/ config.logo_path # "" /\ clear_logo
    /\ UNCHANGED <<workers, files>>

(***************************************************************************)
(* SpecWorker: one BatchWorker constructed directly on any item list, its  *)
(* owner calling start() and stop() at any time.                           *)
(***************************************************************************)
InitWorker ==
    /\ config = QRConfig
    /\ \E items \in SeqsUpTo(ItemPool, MaxItems), naming \in Namings,
          fmt \in Formats :
          workers = <<BatchWorker(items, QRConfig, naming, fmt)>>
    /\ files = {}
    /\ edits = 0
    /\ batch_worker = 1
    /\ start_enabled = FALSE
    /\ stop_enabled = TRUE
    /\ ui = UiIdle
    /\ posted = <<>>
    /\ gen = NoCall
    /\ logo_on_disk = FALSE
    /\ last = NoCall
    /\ WinInit
    /\ preset = NoPreset

WorkerStart == start(1) /\ UNCHANGED <<config, files, edits, uiVars>>

WorkerStop ==
    /\ ~workers[1].stop
    /\ stop(1)
    /\ UNCHANGED <<config, files, edits, uiVars>>

WorkerRun == run(1) /\ UNCHANGED uiVars

NextWorker ==
    \/ WorkerStart /\ UNCHANGED <<genVars, winVars, ctlVars, preset>>
    \/ WorkerStop /\ UNCHANGED <<genVars, winVars, ctlVars, preset>>
    \/ WorkerRun /\ UNCHANGED <<genVars, winVars, ctlVars, preset>>

SpecWorker == InitWorker /\ [][NextWorker]_vars

\* The thread of a started worker is scheduled: run keeps taking steps until
\* it returns.
\* The item lists and templates of the runs followed to their end.
LiveItems == {<<>>, <<"a", "-", "/">>}
LiveNamings == {NamingDefault, NamingBad}

InitLive ==
    /\ InitWorker
    /\ \A i \in 1..Len(workers[1].items) : workers[1].items[i] \in LiveItems
    /\ workers[1].naming \in LiveNamings
    /\ workers[1].fmt = "PNG"

SpecWorkerLive ==
    /\ InitLive
    /\ [][NextWorker]_vars
    /\ WF_vars(WorkerRun /\ UNCHANGED <<genVars, winVars, ctlVars, preset>>)

(***************************************************************************)
(* Spec: the window. The UI thread runs one handler at a time; a handler   *)
(* that calls QThread.wait() blocks it until the worker thread has exited. *)
(***************************************************************************)
\* self.batch_text.toPlainText().splitlines(), as the user may have typed it
BatchTexts ==
    { << <<" ">>, <<>> >>,
      << <<" ", "a", "/">>, <<>>, <<"b", " ">> >> }

\* [ln.strip() for ln in ...splitlines() if ln.strip()]
RECURSIVE Lines(_)
Lines(text) ==
    IF text = <<>> THEN <<>>
    ELSE IF Strip(Head(text)) # <<>>
         THEN <<Strip(Head(text))>> \o Lines(Tail(text))
         ELSE Lines(Tail(text))

Init ==
    /\ config = QRConfig
    /\ workers = <<>>
    /\ files = {}
    /\ edits = 0
    /\ batch_worker = 0
    /\ start_enabled = TRUE
    /\ stop_enabled = FALSE
    /\ ui = UiIdle
    /\ posted = <<>>
    /\ gen = NoCall
    /\ logo_on_disk = FALSE
    /\ last = NoCall
    /\ WinInit
    /\ preset = NoPreset

\* A BatchWorker object that no longer exists.
Destroyed == [BatchWorker(<<>>, QRConfig, <<>>, "") EXCEPT !.pc = "destroyed"]

\* Line 1551, self.batch_worker = None: the window held the only reference
\* to the worker, which is destroyed with it unless its thread still runs.
Released(ws, w) ==
    IF w = 0 \/ isRunning(ws[w]) THEN ws ELSE [ws EXCEPT ![w] = Destroyed]

BatchStopTailKeepsButtons ==
    /\ workers' = Released(workers, batch_worker)
    /\ batch_worker' = 0
    /\ UNCHANGED <<start_enabled, stop_enabled>>

\* Lines 1551-1553: the end of _batch_stop.
BatchStopTail ==
    /\ workers' = Released(workers, batch_worker)
    /\ batch_worker' = 0
    /\ start_enabled' = TRUE
    /\ stop_enabled' = FALSE

\* Lines 1526-1532 and 1543: the worker is created on self.config and started.
NewWorker(lines, naming, fmt) ==
    [BatchWorker(lines, config, IF naming # <<>> THEN naming ELSE NamingDefault,
                 fmt) EXCEPT !.pc = "check"]

\* Lines 1551-1553 of _batch_stop, then lines 1525-1544 of _batch_start.
BatchStartTail(lines, naming, fmt) ==
    /\ workers' = Append(Released(workers, batch_worker),
                         NewWorker(lines, naming, fmt))
    /\ batch_worker' = Len(workers) + 1
    /\ start_enabled' = FALSE
    /\ stop_enabled' = TRUE

\* Line 1547: there is a worker and its thread is running.
MustWaitNever == FALSE

MustWait == batch_worker # 0 /\ isRunning(workers[batch_worker])

\* Lines 1548-1549: stop() is called and the UI thread enters wait(); then
\* names the handler to finish when wait() returns.
StopAndWait(then, lines, naming, fmt) ==
    /\ stop(batch_worker)
    /\ ui' = [pc |-> then, lines |-> lines, naming |-> naming, fmt |-> fmt]
    /\ UNCHANGED <<batch_worker, start_enabled, stop_enabled>>

\* NeoQRPro._batch_start, up to the wait() inside _batch_stop when the
\* previous worker is still running. out_dir = "" is the cancelled dialog.
batch_start(text, out_dir, naming, fmt) ==
    /\ ui.pc = "idle"
    /\ Len(workers) < MaxBatches
    /\ LET lines == Lines(text)
       IN  IF lines = <<>> \/ out_dir = ""
           THEN UNCHANGED <<workers, uiVars>>
           ELSE IF MustWait
           THEN StopAndWait("start", lines, naming, fmt) /\ UNCHANGED posted
           ELSE BatchStartTail(lines, naming, fmt) /\ UNCHANGED <<ui, posted>>
    /\ UNCHANGED <<config, files, edits>>

\* NeoQRPro._batch_stop, up to its wait().
batch_stop ==
    /\ ui.pc = "idle"
    /\ IF MustWait
       THEN StopAndWait("stop", <<>>, <<>>, "")
       ELSE BatchStopTail /\ UNCHANGED ui
    /\ UNCHANGED <<config, files, edits, posted>>

\* The window has been closed: no handler runs any more.
UiClosed == [UiIdle EXCEPT !.pc = "closed"]

\* wait() returns: the handler that called it runs to its end.
wait_returns ==
    /\ ui.pc \in {"start", "stop", "close"}
    /\ ~isRunning(workers[batch_worker])
    /\ CASE ui.pc = "start" ->
              BatchStartTail(ui.lines, ui.naming, ui.fmt) /\ ui' = UiIdle
         [] ui.pc = "stop" -> BatchStopTail /\ ui' = UiIdle
         [] ui.pc = "close" ->
              /\ ui' = UiClosed
              /\ UNCHANGED <<workers, batch_worker, start_enabled, stop_enabled>>
    /\ UNCHANGED <<config, files, edits, posted>>

\* Lines 685-690, NeoQRPro.closeEvent: a worker, running or not, is told to
\* stop and waited for; the buttons and self.batch_worker are left alone.
close_event ==
    /\ ui.pc = "idle"
    /\ IF batch_worker = 0
       THEN ui' = UiClosed /\ UNCHANGED workers
       ELSE /\ stop(batch_worker)
            /\ ui' = IF isRunning(workers[batch_worker])
                     THEN [UiIdle EXCEPT !.pc = "close"]
                     ELSE UiClosed
    /\ UNCHANGED <<config, files, edits, batch_worker, start_enabled,
                   stop_enabled, posted>>

\* NeoQRPro._on_batch_finished: the queued finished signal of a worker is
\* delivered; the handler ends in _batch_stop.
on_batch_finished ==
    /\ ui.pc = "idle"
    /\ posted # <<>>
    /\ posted' = Tail(posted)
    /\ IF MustWait
       THEN StopAndWait("stop", <<>>, <<>>, "")
       ELSE BatchStopTail /\ UNCHANGED ui
    /\ UNCHANGED <<config, files, edits>>

\* A step of a worker thread; its finished signal is queued to the UI thread.
thread_run ==
    \E w \in 1..Len(workers) :
        /\ run(w)
        /\ posted' = IF workers[w].pc = "finish"
                     THEN Append(posted, FinishedEvent(workers[w]))
                     ELSE posted
        /\ UNCHANGED <<batch_worker, start_enabled, stop_enabled, ui>>

user_edit == ui.pc = "idle" /\ Edit /\ UNCHANGED uiVars

Next ==
    \/ /\ \E text \in BatchTexts, out_dir \in {"", "out"},
             naming \in NamingTexts :
             batch_start(text, out_dir, naming, "PNG")
       /\ UNCHANGED <<genVars, winVars, ctlVars, preset>>
    \/ batch_stop /\ UNCHANGED <<genVars, winVars, ctlVars, preset>>
    \/ wait_returns /\ UNCHANGED <<genVars, winVars, ctlVars, preset>>
    \/ on_batch_finished /\ UNCHANGED <<genVars, winVars, ctlVars, preset>>
    \/ thread_run /\ UNCHANGED <<genVars, winVars, ctlVars, preset>>
    \/ user_edit /\ UNCHANGED <<genVars, winVars, ctlVars, preset>>

Spec == Init /\ [][Next]_vars

(***************************************************************************)
(* The window as its user can drive it: a button is clicked only while it  *)
(* is enabled, and the window may be closed. The worker thread is          *)
(* scheduled, and a wait() whose thread has exited returns.                *)
(***************************************************************************)
\* What the last _batch_start did: returned for want of items, returned
\* because the folder dialog was cancelled, or went on to start a batch.
BatchAsked(lines, out_dir) ==
    [NoAsk EXCEPT !.op = IF lines = <<>> THEN "batch"
                         ELSE IF out_dir = "" THEN "batch cancelled"
                         ELSE "batch started",
                  !.empty = (lines = <<>>)]

click_start ==
    /\ start_enabled
    /\ \E text \in BatchTexts, out_dir \in {"", "out"}, naming \in NamingTexts :
          /\ batch_start(text, out_dir, naming, "PNG")
          /\ asked' = BatchAsked(Lines(text), out_dir)

click_stop == stop_enabled /\ batch_stop /\ UNCHANGED asked

UserRest ==
    <<genVars, content_edit, current_qr, preview, log_lines, status_label,
      preset, ctlVars>>

NextUser ==
    \/ click_start /\ UNCHANGED UserRest
    \/ click_stop /\ UNCHANGED UserRest
    \/ wait_returns /\ UNCHANGED <<asked, UserRest>>
    \/ on_batch_finished /\ UNCHANGED <<asked, UserRest>>
    \/ thread_run /\ UNCHANGED <<asked, UserRest>>
    \/ close_event /\ UNCHANGED <<asked, UserRest>>

SpecUser ==
    /\ Init
    /\ [][NextUser]_vars
    /\ WF_vars(thread_run /\ UNCHANGED <<asked, UserRest>>)
    /\ WF_vars(wait_returns /\ UNCHANGED <<asked, UserRest>>)

(***************************************************************************)
(* QREngine.generate called on its own, while the logo file comes and goes.*)
(***************************************************************************)
InitGen ==
    /\ config = QRConfig
    /\ workers = <<>>
    /\ files = {}
    /\ edits = 0
    /\ batch_worker = 0
    /\ start_enabled = TRUE
    /\ stop_enabled = FALSE
    /\ ui = UiIdle
    /\ posted = <<>>
    /\ gen = NoCall
    /\ logo_on_disk \in BOOLEAN
    /\ last = NoCall
    /\ WinInit
    /\ preset = NoPreset

NextGen ==
    \/ /\ \E cfg \in GenConfigs, encFail \in BOOLEAN :
             generate_call(cfg, encFail)
       /\ UNCHANGED <<batchVars, uiVars, last, winVars, ctlVars, preset>>
    \/ /\ \E logo \in Logos : generate_return(logo)
       /\ UNCHANGED <<batchVars, uiVars, last, winVars, ctlVars, preset>>
    \/ generate_done /\ UNCHANGED <<batchVars, uiVars, last, winVars, ctlVars, preset>>
    \/ logo_file_changes /\ UNCHANGED <<batchVars, uiVars, last, winVars, ctlVars, preset>>

SpecGen == InitGen /\ [][NextGen]_vars

(***************************************************************************)
(* QREngine.generate called again and again; last is the call before.      *)
(***************************************************************************)
TwiceConfigs ==
    { [QRConfig EXCEPT !.content = c, !.box_size = 1, !.transparent_bg = t,
                       !.logo_path = l]
        : c \in {<<"a">>, <<"a", "b">>}, t \in BOOLEAN, l \in {"", LogoFile} }

NextTwice ==
    \/ /\ \E cfg \in TwiceConfigs, encFail \in BOOLEAN :
             generate_call(cfg, encFail)
       /\ UNCHANGED <<batchVars, uiVars, last, winVars, ctlVars, preset>>
    \/ /\ \E logo \in Logos : generate_return(logo)
       /\ UNCHANGED <<batchVars, uiVars, last, winVars, ctlVars, preset>>
    \/ /\ generate_done
       /\ last' = gen
       /\ UNCHANGED <<batchVars, uiVars, winVars, ctlVars, preset>>
    \/ logo_file_changes /\ UNCHANGED <<batchVars, uiVars, last, winVars, ctlVars, preset>>

SpecTwice == InitGen /\ [][NextTwice]_vars

(***************************************************************************)
(* The window: typing, previews and presets. The batch handlers' messages  *)
(* are not followed here but for the empty batch list.                     *)
(***************************************************************************)
Fields == {<<>>, <<"1">>}

UsedRest == <<workers, files, edits, uiVars, genVars, preset, colorVars>>

WinRest == <<UsedRest, written>>

NextWin ==
    \/ /\ \E text \in WinTexts : edit_content(text)
       /\ UNCHANGED WinRest
    \/ /\ log_lines < MaxLog
       /\ \E outcome \in {"ok", "generate", "convert"} :
             do_generate_preview(outcome)
       /\ UNCHANGED <<WinRest, timerVars>>
    \/ /\ log_lines < MaxLog
       /\ \E ok \in BOOLEAN, url \in Fields : preset_website(ok, url)
       /\ UNCHANGED WinRest
    \/ /\ log_lines < MaxLog
       /\ \E ok \in BOOLEAN, ssid \in Fields, password \in Fields :
             preset_wifi(ok, ssid, password)
       /\ UNCHANGED WinRest
    \/ /\ log_lines < MaxLog
       /\ \E ok \in BOOLEAN, address \in Fields :
             preset_email(ok, address, <<>>, <<>>)
       /\ UNCHANGED WinRest
    \/ /\ log_lines < MaxLog
       /\ \E ok \in BOOLEAN, number \in Fields : preset_phone(ok, number)
       /\ UNCHANGED WinRest
    \/ /\ log_lines < MaxLog
       /\ \E ok \in BOOLEAN, number \in Fields : preset_sms(ok, number, <<>>)
       /\ UNCHANGED WinRest
    \/ /\ log_lines < MaxLog
       /\ \E ok \in BOOLEAN, name \in Fields :
             preset_vcard(ok, name, <<>>, <<>>, <<>>)
       /\ UNCHANGED WinRest
    \/ /\ log_lines < MaxLog
       /\ batch_start_no_items
       /\ UNCHANGED WinRest

SpecWin == Init /\ [][NextWin]_vars

(***************************************************************************)
(* The window: previews, and the handlers that use the image in hand.      *)
(***************************************************************************)
NextShown ==
    \/ /\ \E text \in WinTexts : edit_content(text)
       /\ UNCHANGED WinRest
    \/ /\ log_lines < MaxLog
       /\ \E outcome \in {"ok", "generate", "convert"} :
             do_generate_preview(outcome)
       /\ UNCHANGED <<WinRest, timerVars>>
    \/ /\ log_lines <= MaxLog
       /\ \E path \in Fields, ok \in BOOLEAN : save_qr(path, ok)
       /\ UNCHANGED UsedRest
    \/ /\ log_lines <= MaxLog
       /\ \E ok \in BOOLEAN : copy_image(ok)
       /\ UNCHANGED UsedRest
    \/ /\ log_lines <= MaxLog
       /\ test_qr
       /\ UNCHANGED UsedRest

SpecShown == Init /\ [][NextShown]_vars

(***************************************************************************)
(* The window: the colour controls and the previews.                       *)
(***************************************************************************)
BgColors == {Black, White, Red}

ColorsRest == <<workers, files, edits, uiVars, genVars, preset>>

NextColors ==
    \/ /\ click_transparent
       /\ UNCHANGED ColorsRest
    \/ /\ \E color \in BgColors, valid \in BOOLEAN :
             pick_bg_color(color, valid)
       /\ UNCHANGED ColorsRest
    \/ /\ reset_colors
       /\ UNCHANGED ColorsRest
    \/ /\ log_lines < MaxLog
       /\ \E outcome \in {"ok", "generate", "convert"} :
             do_generate_preview(outcome)
       /\ UNCHANGED <<WinRest, timerVars>>

SpecColors == Init /\ [][NextColors]_vars

(***************************************************************************)
(* The window as time passes: typing and the debounced preview.            *)
(***************************************************************************)
Outcomes == {"ok", "generate"}

NextDebounce ==
    \/ /\ \E text \in WinTexts : type_content(text)
       /\ UNCHANGED WinRest
    \/ /\ tick
       /\ UNCHANGED WinRest
    \/ /\ \E outcome \in Outcomes : timeout(outcome)
       /\ UNCHANGED WinRest
    \/ /\ \E outcome \in Outcomes : initial_timeout(outcome)
       /\ UNCHANGED WinRest
    \/ /\ log_lines < MaxLog
       /\ \E outcome \in Outcomes : shortcut_generate(outcome)
       /\ UNCHANGED WinRest

SpecDebounce == Init /\ [][NextDebounce]_vars

(***************************************************************************)
(* The Presets functions called on their own.                              *)
(***************************************************************************)
Urls ==
    { <<>>, <<"a", ".", "b">>, <<"h", "t", "t", "p", ":", "/", "/", "a">>, <<"h", "t", "t", "p", "s", ":", "/", "/", "a">>, <<"H", "T", "T", "P", "S", ":", "/", "/", "a">>, <<"f", "t", "p", ":", "/", "/", "a">>, <<"h", "t", "t", "p", ":", "/", "a">>, <<"h">> }
Ssids == { <<>>, <<"a">>, <<"a", " ", "b">>, <<"H", "o", "m", "e", "N", "e", "t">> }
Passwords == { <<>>, <<"x">>, <<"x", ";">>, <<" ">> }
Securities == { <<"W", "P", "A">>, <<"W", "E", "P">>, NoPass }
Numbers ==
    { <<>>, <<"+", "1", " ", "(", "5", "5", "5", ")", " ", "1", "2", "3", "-", "4", "5", "6", "7">>, <<"a", "b">>, <<"1", "+">>, <<" ">> }
Messages == { <<>>, <<"h", "i">>, <<"a", " ", "&", "b">>, <<"1", "/", "2", "?">> }

Called(fn, args, out) == [fn |-> fn, args |-> args, out |-> out]

PresetRest == <<batchVars, uiVars, genVars, winVars, ctlVars>>

call_website ==
    /\ \E url \in Urls : preset' = Called("website", <<url>>, website(url))
    /\ UNCHANGED PresetRest

call_wifi ==
    /\ \E ssid \in Ssids, password \in Passwords, security \in Securities,
          hidden \in BOOLEAN :
          preset' = Called("wifi", <<ssid, password, security, hidden>>,
                           wifi(ssid, password, security, hidden))
    /\ UNCHANGED PresetRest

call_phone ==
    /\ \E number \in Numbers :
          preset' = Called("phone", <<number>>, phone(number))
    /\ UNCHANGED PresetRest

call_sms ==
    /\ \E number \in Numbers, message \in Messages :
          preset' = Called("sms", <<number, message>>, sms(number, message))
    /\ UNCHANGED PresetRest

NextPresets == call_website \/ call_wifi \/ call_phone \/ call_sms

SpecPresets == Init /\ [][NextPresets]_vars

(***************************************************************************)
(* Properties of the batch worker and of the batch handlers.               *)
(***************************************************************************)
Existing == {w \in 1..Len(workers) : workers[w].pc # "destroyed"}

EventsOf(wk, type) == {j \in 1..Len(wk.events) : wk.events[j].type = type}

Count(wk, type) == Cardinality(EventsOf(wk, type))

LastEvent(wk) == wk.events[Len(wk.events)]

\* The run is over and finished(success, failed) was its last emission.
Finished(wk, success, failed) ==
    /\ wk.pc = "exited"
    /\ wk.events # <<>>
    /\ LastEvent(wk) = Event("finished", success, failed, <<>>, "")
    /\ Count(wk, "finished") = 1

BlankItems(wk) == {i \in 1..Len(wk.items) : ContentBlank(wk.items[i])}

\* C1: a run that is not stopped handles every item whatever fails: with n
\* items of which k fail (k being the number of error events, at least the
\* number of blank items, and n when the naming template cannot be
\* formatted) it ends with n progress events and finished(n - k, k), n - k
\* being the number of files saved.
C1_RunNeverAborts ==
    \A w \in Existing :
        LET wk == workers[w]
            n == Len(wk.items)
            k == Count(wk, "error")
        IN  (wk.pc = "exited" /\ ~wk.stop) =>
               /\ Finished(wk, n - k, k)
               /\ Count(wk, "progress") = n
               /\ Len(wk.saved) = n - k
               /\ k >= Cardinality(BlankItems(wk))
               /\ (wk.naming = NamingBad => k = n)

\* Three items, the second the empty string, nothing else failing:
\* finished(2, 1) after exactly three progress events.
C1_Witness ==
    LET wk == workers[1]
    IN  /\ Len(wk.items) = 3
        /\ wk.items[2] = <<>>
        /\ ~wk.stop
        /\ Finished(wk, 2, 1)
        /\ Count(wk, "progress") = 3

\* The number of items handled or in hand once the loop head has run.
Handled(wk) == wk.success + wk.failed

\* C2 as stated: a batch stopped when k items have been processed reports
\* success + failed <= k.
C2_Original ==
    \A w \in Existing :
        LET wk == workers[w]
        IN  (wk.pc = "exited" /\ wk.stopAt # -1) => Handled(wk) <= wk.stopAt

\* C2, amended: the worker reads the stop flag at the head of each
\* iteration. Once it has seen the flag set (or run out of items) it handles
\* no further item and saves no further file, and it still emits finished
\* with the counts reached; a batch stopped when k items have been processed
\* reports success + failed <= k + 1, the one more being the item the worker
\* was generating when stop() was called, and exactly k otherwise.
C2_StopIsCooperative ==
    /\ [](\A w \in Existing :
            LET wk == workers[w]
            IN  /\ wk.pc = "exited" =>
                      Finished(wk, Len(wk.saved), wk.failed)
                /\ (wk.pc \in {"finish", "exited"} /\ wk.stopAt # -1) =>
                      /\ Handled(wk) <= wk.stopAt + 1
                      /\ Handled(wk) = wk.idx - 1
                /\ (wk.pc \in {"finish", "exited"} /\ wk.stopAt # -1
                       /\ wk.idx <= Len(wk.items)) =>
                      Handled(wk) >= wk.stopAt)
    /\ [][\A w \in Existing :
            workers[w].pc \in {"finish", "exited"} =>
               /\ workers'[w].pc \in {"finish", "exited"}
               /\ workers'[w].saved = workers[w].saved
               /\ workers'[w].success = workers[w].success
               /\ workers'[w].failed = workers[w].failed
               /\ files' = files]_vars

\* Stopped after 2 of 3 items: finished reports 2.
C2_Witness ==
    LET wk == workers[1]
    IN  /\ wk.pc = "exited"
        /\ Len(wk.items) = 3
        /\ wk.stopAt = 2
        /\ wk.events # <<>>
        /\ LastEvent(wk).type = "finished"
        /\ LastEvent(wk).a + LastEvent(wk).b = 2

\* C3: every item of a batch is generated from the settings the template
\* had when the batch was started.
C3_TemplateIsSnapshot ==
    \A w \in Existing :
        LET wk == workers[w]
        IN  \A i \in 1..Len(wk.used) :
               \A f \in TemplateFields : wk.used[i][f] = wk.template[f]

\* C4: only the worker created last can be running, so at most one worker
\* thread runs at any time; while _batch_start waits for the previous worker
\* the stop flag of that worker is set and no new worker exists yet.
C4_OneWorkerAtATime ==
    /\ \A w \in 1..Len(workers) :
          isRunning(workers[w]) => w = Len(workers) /\ w = batch_worker
    /\ Cardinality({w \in 1..Len(workers) : isRunning(workers[w])}) <= 1
    /\ ui.pc # "idle" =>
          /\ batch_worker = Len(workers)
          /\ workers[batch_worker].stop

\* _batch_start was invoked while a batch was generating an item: the UI
\* thread is blocked in wait() and the new worker does not exist yet.
C4_Witness ==
    /\ ui.pc = "start"
    /\ Len(workers) = 1
    /\ workers[1].pc = "item"
    /\ workers[1].stop

\* C5 as stated, its last part: at every moment the number of progress
\* events emitted equals success + failed.
C5_Original ==
    \A w \in Existing :
        Count(workers[w], "progress") = Handled(workers[w])

\* The progress events of a worker, in the order emitted.
ProgressEvents(wk) == SelectSeq(wk.events, LAMBDA e : e.type = "progress")

\* C5, amended: the i-th progress event is (i, n, first 40 characters of
\* item i), one per item handled, for failed items too. The number of
\* progress events equals success + failed whenever the worker is at the
\* head of the loop or done; it is one less while the worker stands between
\* counting an item and emitting its progress event.
C5_ProgressPerItem ==
    \A w \in Existing :
        LET wk == workers[w]
            ps == ProgressEvents(wk)
        IN  /\ \A i \in 1..Len(ps) :
                  ps[i] = Event("progress", i, Len(wk.items),
                                Take(wk.items[i], 40), "")
            /\ Len(ps) = (IF wk.pc = "progress" THEN wk.idx - 1 ELSE Handled(wk))
            /\ Handled(wk) = (IF wk.pc = "progress" THEN wk.idx
                              ELSE IF wk.pc = "new" THEN 0 ELSE wk.idx - 1)

\* Three progress events, one of them for a failed item and one for an item
\* longer than 40 characters.
C5_Witness ==
    LET wk == workers[1]
    IN  /\ wk.pc = "exited"
        /\ Count(wk, "progress") = 3
        /\ wk.failed >= 1
        /\ wk.success >= 1
        /\ \E j \in EventsOf(wk, "progress") :
              /\ Len(wk.events[j].text) = 40
              /\ Len(wk.items[wk.events[j].a]) > 40

\* C6: the number of error events always equals the failed count; an error
\* event carries the first 30 characters of the failed item and the failure,
\* and is followed at once by that item's progress event; a saved item has no
\* error event (success is the number of files saved, and every progress
\* event not preceded by an error event is one of a saved item).
C6_ErrorPerFailure ==
    \A w \in Existing :
        LET wk == workers[w]
            ev == wk.events
        IN  /\ Count(wk, "error") = wk.failed
            /\ Len(wk.saved) = wk.success
            /\ \A j \in EventsOf(wk, "error") :
                  /\ ev[j].reason # ""
                  /\ IF j = Len(ev)
                     THEN /\ wk.pc = "progress"
                          /\ ev[j].text = Take(wk.items[wk.idx], 30)
                     ELSE /\ ev[j + 1].type = "progress"
                          /\ ev[j].text = Take(wk.items[ev[j + 1].a], 30)
            /\ Cardinality({j \in EventsOf(wk, "progress") :
                               j = 1 \/ ev[j - 1].type # "error"})
                 = (IF wk.pc = "progress" /\ (ev = <<>> \/ LastEvent(wk).type # "error")
                    THEN wk.success - 1 ELSE wk.success)

\* Two failures and one success, one failed item longer than 30 characters.
C6_Witness ==
    LET wk == workers[1]
    IN  /\ wk.pc = "exited"
        /\ wk.failed = 2
        /\ wk.success = 1
        /\ \E j \in EventsOf(wk, "error") : Len(wk.events[j].text) = 30

(***************************************************************************)
(* QREngine.generate.                                                      *)
(***************************************************************************)
OnlyWhitespace(s) == \A i \in 1..Len(s) : s[i] \in Whitespace

\* The generate call in hand has got past the checks of lines 135-142.
Encoding == gen.pc # "idle" /\ gen.raised # "ValueError"

Returned == gen.pc = "returned"

\* C7: generate raises ValueError whenever the content is empty or only
\* whitespace, whatever the other fields, and then yields no image; for any
\* other content it never raises ValueError.
C7_BlankContentIsRejected ==
    gen.pc # "idle" =>
        IF OnlyWhitespace(gen.cfg.content)
        THEN gen.pc = "raised" /\ gen.raised = "ValueError"
        ELSE gen.raised # "ValueError"

C7_Witness ==
    /\ gen.pc = "raised"
    /\ gen.raised = "ValueError"
    /\ gen.cfg.content = <<" ", "\t">>
    /\ gen.cfg.logo_path = LogoFile
    /\ gen.cfg.error_correction = LabelH
    /\ ~gen.cfg.auto_optimize

\* The error-correction tiers in order of strength: L < M < Q < H.
Tier(ecc) ==
    CASE ecc = ERROR_CORRECT_L -> 1
      [] ecc = ERROR_CORRECT_M -> 2
      [] ecc = ERROR_CORRECT_Q -> 3
      [] ecc = ERROR_CORRECT_H -> 4

RequestedTier(label) ==
    CASE label = LabelL -> 1
      [] label = LabelM -> 2
      [] label = LabelQ -> 3
      [] label = LabelH -> 4
      [] OTHER -> 2

\* C8: with a logo path set and the file there, the code is encoded at
\* tier Q or higher whatever tier was asked for; with no logo path, or no
\* such file, at exactly the tier asked for (M for an unknown label).
C8_LogoForcesTierQ ==
    Encoding =>
        IF gen.cfg.logo_path # "" /\ gen.exists
        THEN Tier(gen.ecc) >= 3
        ELSE Tier(gen.ecc) = RequestedTier(gen.cfg.error_correction)

C8_Witness ==
    /\ Returned
    /\ gen.cfg.logo_path # "" /\ gen.exists
    /\ gen.cfg.error_correction = LabelL
    /\ gen.ecc = ERROR_CORRECT_Q

Pixels(g) ==
    (0..(Side(g.cfg, g.ecc) - 1)) \X (0..(Side(g.cfg, g.ecc) - 1))

\* What C9 says the pixel at (x, y) of the output is.
ExtractedPixel(g, x, y) ==
    LET r == Rendered(g.cfg, g.ecc, x, y)
    IN  IF <<r[1], r[2], r[3]>> = getrgb(g.cfg.bg_color)
        THEN <<255, 255, 255, 0>>
        ELSE <<r[1], r[2], r[3], 255>>

\* The pad of a logo has been pasted over (x, y).
UnderLogo(g, x, y) ==
    g.overlay /\ g.logo.ok /\ InPad(Side(g.cfg, g.ecc), g.logo, x, y)

\* C9 as stated: with transparent_bg, every pixel of the output rendered in
\* exactly the background colour is (255,255,255,0) and every other pixel has
\* its rendered colour at alpha 255.
C9_Original ==
    (Returned /\ gen.cfg.transparent_bg) =>
        \A p \in Pixels(gen) :
            generate(gen, p[1], p[2]) = ExtractedPixel(gen, p[1], p[2])

\* C9: with transparent_bg, every pixel of the output outside the rectangle
\* the padded logo is pasted on (every pixel, when no logo is pasted) is
\* (255,255,255,0) if it was rendered in exactly the background colour, and
\* has its rendered colour at alpha 255 otherwise.
C9_BackgroundBecomesTransparent ==
    (Returned /\ gen.cfg.transparent_bg) =>
        \A p \in Pixels(gen) :
            ~UnderLogo(gen, p[1], p[2]) =>
                generate(gen, p[1], p[2]) = ExtractedPixel(gen, p[1], p[2])

C9_Witness ==
    /\ Returned /\ gen.cfg.transparent_bg
    /\ gen.cfg.bg_color = Black
    /\ gen.overlay /\ gen.logo.ok
    /\ \E p \in Pixels(gen) :
          /\ ~UnderLogo(gen, p[1], p[2])
          /\ generate(gen, p[1], p[2]) = <<255, 255, 255, 0>>
    /\ \E p \in Pixels(gen) :
          /\ ~UnderLogo(gen, p[1], p[2])
          /\ generate(gen, p[1], p[2]) = <<255, 0, 0, 255>>
    /\ \E p \in Pixels(gen) :
          /\ UnderLogo(gen, p[1], p[2])
          /\ generate(gen, p[1], p[2]) # ExtractedPixel(gen, p[1], p[2])

\* The pixels on the outer edge of the image.
OuterBorder(g) ==
    {p \in Pixels(g) :
        \E i \in 1..2 : p[i] = 0 \/ p[i] = Side(g.cfg, g.ecc) - 1}

\* C10: without transparent_bg the image returned for non-blank content is
\* opaque, every pixel at alpha 255, and with the quiet zone on the pixels of
\* its outer border have the background colour.
C10_OpaqueWithBackgroundBorder ==
    (Returned /\ ~gen.cfg.transparent_bg) =>
        /\ \A p \in Pixels(gen) : generate(gen, p[1], p[2])[4] = 255
        /\ gen.cfg.quiet_zone =>
              \A p \in OuterBorder(gen) :
                  generate(gen, p[1], p[2]) = Opaque(getrgb(gen.cfg.bg_color))

\* The two calls saw the same logo file: there or not at both checks, and
\* with the same picture in it.
SameFiles(g, h) ==
    g.exists = h.exists /\ g.overlay = h.overlay /\ g.logo = h.logo

Max(a, b) == IF a >= b THEN a ELSE b

\* A logo has been pasted on the image returned.
LogoPasted == Returned /\ gen.overlay /\ gen.logo.ok

\* The logo as pasted, after thumbnail, and the pad it is pasted in.
PastedLogo == ThumbnailSize(gen.logo.w, gen.logo.h, MaxDim(Side(gen.cfg, gen.ecc)))
PastedPad == PadSize(PastedLogo)

\* n is at most 22% of the side of the image.
Within22Percent(n) == 100 * n <= 22 * Side(gen.cfg, gen.ecc)

\* C12 as stated: the larger side of what add_logo pastes on the QR image is
\* at most 22% of the smaller side of the image.
C12_Original ==
    LogoPasted => Within22Percent(Max(PastedPad[1], PastedPad[2]))

\* C12: the larger side of the logo, as scaled, is at most 22% of the smaller
\* side of the image; what is pasted is the logo in a white pad 8 pixels
\* wider and 8 pixels higher than it, which lies within the image.
C12_LogoWithin22Percent ==
    LogoPasted =>
        /\ Within22Percent(Max(PastedLogo[1], PastedLogo[2]))
        /\ PastedLogo[1] >= 1 /\ PastedLogo[2] >= 1
        /\ PastedPad = <<PastedLogo[1] + 8, PastedLogo[2] + 8>>
        /\ \A p \in Pixels(gen) :
              UnderLogo(gen, p[1], p[2]) <=>
                  LET pos == PadPos(Side(gen.cfg, gen.ecc), PastedPad)
                  IN  /\ p[1] - pos[1] \in 0..(PastedPad[1] - 1)
                      /\ p[2] - pos[2] \in 0..(PastedPad[2] - 1)
        /\ Cardinality({p \in Pixels(gen) : UnderLogo(gen, p[1], p[2])})
              = PastedPad[1] * PastedPad[2]

C12_Witness ==
    /\ LogoPasted
    /\ gen.logo.w = 100 /\ gen.logo.h = 40
    /\ PastedLogo[1] = MaxDim(Side(gen.cfg, gen.ecc))
    /\ PastedLogo[2] < PastedLogo[1]
    /\ ~Within22Percent(PastedPad[1])

\* The image of the call without any logo: rendered, then stripped.
WithoutLogo(g, x, y) == Stripped(g.cfg, Rendered(g.cfg, g.ecc, x, y))

\* C13: add_logo never raises. No generate call fails because of its logo,
\* and a call whose logo file is missing, unreadable or no image returns the
\* QR image as it is without a logo.
C13_LogoFailuresAreSwallowed ==
    /\ gen.raised # "LogoError"
    /\ (Returned /\ ~(gen.overlay /\ gen.logo.ok)) =>
          \A p \in Pixels(gen) :
              generate(gen, p[1], p[2]) = WithoutLogo(gen, p[1], p[2])

C13_Witness ==
    /\ Returned
    /\ gen.cfg.logo_path = LogoFile /\ gen.exists
    /\ gen.overlay /\ ~gen.logo.ok
    /\ gen.cfg.transparent_bg

\* add_logo applied to the image the call returned, with the same logo.
AddLogoAgain(g, x, y) ==
    add_logo(generate(g, x, y), Side(g.cfg, g.ecc), g.logo, x, y)

\* C14: add_logo is idempotent. Pasting the same logo a second time on the
\* image add_logo returned changes no pixel, logos with partially
\* transparent pixels included.
C14_AddLogoIsIdempotent ==
    LogoPasted =>
        \A p \in Pixels(gen) :
            AddLogoAgain(gen, p[1], p[2]) = generate(gen, p[1], p[2])

\* The characters a symbol of version v holds at a tier, in byte mode.
ByteCapacity(tier, v) ==
    CASE tier = 1 -> <<17, 32, 53, 78, 106>>[v]
      [] tier = 2 -> <<14, 26, 42, 62, 84>>[v]
      [] tier = 3 -> <<11, 20, 32, 46, 60>>[v]
      [] tier = 4 -> <<7, 14, 24, 34, 44>>[v]

HoldsContent(g, v) == Len(g.cfg.content) <= ByteCapacity(Tier(g.ecc), v)

\* The call in hand has made its matrix.
Made == gen.pc \in {"rendered", "returned"}

\* C22: the matrix has the minimum version that holds the content when
\* auto-size is on and version 4 when it is off, and a border of 4 modules
\* with the quiet zone and of 1 without; so with auto-size off the image is
\* a square of (33 + 2 * border) * box_size pixels whatever the content, and
\* a content that version 4 does not hold makes the call fail.
C22_FixedVersionIsFixed ==
    /\ Made =>
          /\ Border(gen.cfg) = (IF gen.cfg.quiet_zone THEN 4 ELSE 1)
          /\ IF gen.cfg.auto_optimize
             THEN /\ HoldsContent(gen, Version(gen.cfg, gen.ecc))
                  /\ \A v \in 1..(Version(gen.cfg, gen.ecc) - 1) :
                        ~HoldsContent(gen, v)
             ELSE /\ Version(gen.cfg, gen.ecc) = 4
                  /\ Side(gen.cfg, gen.ecc)
                        = (33 + 2 * Border(gen.cfg)) * gen.cfg.box_size
    /\ (Encoding /\ ~gen.cfg.auto_optimize /\ ~HoldsContent(gen, 4)) =>
          gen.pc = "raised"

\* C25: the tier the code is encoded at is never below the tier asked for,
\* in the order L < M < Q < H; asked for H with the logo file there, the code
\* is encoded at H.
C25_LogoNeverLowersTier ==
    Encoding =>
        /\ Tier(gen.ecc) >= RequestedTier(gen.cfg.error_correction)
        /\ (gen.cfg.error_correction = LabelH /\ gen.cfg.logo_path # ""
               /\ gen.exists) => gen.ecc = ERROR_CORRECT_H

\* C29: within one call the logo is overlaid exactly when the tier was raised
\* for it: the check of the file before encoding (line 140) and the check
\* before the overlay (line 186) agree, whatever happens to the file in
\* between, and no logo is pasted on a code encoded below tier Q.
C29_LogoChecksAgree ==
    Returned =>
        /\ gen.overlay <=> (gen.cfg.logo_path # "" /\ gen.exists)
        /\ (gen.overlay /\ gen.logo.ok) => Tier(gen.ecc) >= 3

(***************************************************************************)
(* The window.                                                             *)
(***************************************************************************)
\* C15: when a preview generation fails, the failure is written to the
\* activity log and the preview shown before it is still shown.
C15_FailedPreviewKeepsPreview ==
    (asked.op = "preview" /\ asked.failed) =>
        /\ asked.logged
        /\ preview = asked.shown

\* C16: a request with an empty required field always writes a message to
\* the activity log: a generation asked for with blank content, a preset
\* confirmed with an empty SSID, address, number, URL or name, a batch started
\* with no item.
C16_EmptyFieldIsSurfaced == asked.empty => asked.logged

(***************************************************************************)
(* Presets.                                                                *)
(***************************************************************************)
Failed(out) == out.raised # "" /\ out.value = <<>>

\* url begins with a scheme: a name, then "://".
HasScheme(url) ==
    \E i \in 2..(Len(url) - 2) :
        /\ SubSeq(url, i, i + 2) = <<":", "/", "/">>
        /\ \A j \in 1..(i - 1) : url[j] \notin {":", "/", ".", " "}

\* C17: website fails for an empty url; otherwise it returns the url as it
\* is when the url has a scheme, whatever the scheme and its case, and
\* "https://" + url when it has none.
C17_WebsiteKeepsAnyScheme ==
    preset.fn = "website" =>
        LET url == preset.args[1]
        IN  IF url = <<>> THEN Failed(preset.out)
            ELSE preset.out =
                     Returns(IF HasScheme(url) THEN url ELSE <<"h", "t", "t", "p", "s", ":", "/", "/">> \o url)

\* "WIFI:T:<sec>;S:<ssid>;P:<password>;H:<hidden>;;": the four fields, each
\* closed by ";", and one more ";".
WifiText(sec, ssid, password, hidden) ==
    Join(<< <<"W", "I", "F", "I", ":", "T", ":">> \o sec, <<"S", ":">> \o ssid, <<"P", ":">> \o password, <<"H", ":">> \o hidden,
            <<>>, <<>> >>, <<";">>)

\* C18: wifi fails for an empty ssid; otherwise it returns
\* "WIFI:T:<sec>;S:<ssid>;P:<password>;H:<true|false>;;" with sec "nopass"
\* whenever the password is empty, whatever security was asked for, and the
\* security asked for otherwise.
C18_WifiFormat ==
    preset.fn = "wifi" =>
        LET ssid == preset.args[1]
            password == preset.args[2]
            security == preset.args[3]
            hidden == preset.args[4]
        IN  IF ssid = <<>> THEN Failed(preset.out)
            ELSE preset.out =
                     Returns(WifiText(
                         IF password = <<>> THEN <<"n", "o", "p", "a", "s", "s">> ELSE security,
                         ssid, password,
                         IF hidden THEN <<"t", "r", "u", "e">> ELSE <<"f", "a", "l", "s", "e">>))

\* wifi("HomeNet", "", "WPA", false) = "WIFI:T:nopass;S:HomeNet;P:;H:false;;"
C18_Witness ==
    /\ preset.fn = "wifi"
    /\ preset.args = <<<<"H", "o", "m", "e", "N", "e", "t">>, <<>>, <<"W", "P", "A">>, FALSE>>
    /\ preset.out.value = <<"W", "I", "F", "I", ":", "T", ":", "n", "o", "p", "a", "s", "s", ";", "S", ":", "H", "o", "m", "e", "N", "e", "t", ";", "P", ":", ";", "H", ":", "f", "a", "l", "s", "e", ";", ";">>

RECURSIVE Dialable(_)
\* The digits and '+' of number, in their order.
Dialable(number) ==
    IF number = <<>> THEN <<>>
    ELSE IF Head(number) \in {"0", "1", "2", "3", "4", "5", "6", "7", "8", "9", "+"}
         THEN <<Head(number)>> \o Dialable(Tail(number))
         ELSE Dialable(Tail(number))

\* The character a percent escape stands for.
Escaped(hex) ==
    CASE hex = <<"2", "0">> -> " "
      [] hex = <<"2", "6">> -> "&"
      [] hex = <<"3", "F">> -> "?"
      [] hex = <<"3", "D">> -> "="
      [] hex = <<"2", "5">> -> "%"
      [] hex = <<"2", "B">> -> "+"
      [] hex = <<"3", "A">> -> ":"
      [] OTHER -> "undefined"

RECURSIVE Unquote(_)
\* Percent-decoding.
Unquote(text) ==
    IF text = <<>> THEN <<>>
    ELSE IF Head(text) = "%" /\ Len(text) >= 3
         THEN <<Escaped(SubSeq(text, 2, 3))>> \o Unquote(SubSeq(text, 4, Len(text)))
         ELSE <<Head(text)>> \o Unquote(Tail(text))

\* text is the percent-encoding of message: it decodes to message and has
\* none of the characters that delimit a query.
PercentEncodes(text, message) ==
    /\ Unquote(text) = message
    /\ \A i \in 1..Len(text) : text[i] \notin {" ", "&", "?", "=", "+", ":"}

\* value is prefix, then the digits and '+' of number, then tail.
NumberPart(value, prefix, number) ==
    LET n == Len(prefix) + Len(Dialable(number))
    IN  IF Len(value) >= n /\ SubSeq(value, 1, n) = prefix \o Dialable(number)
        THEN SubSeq(value, n + 1, Len(value))
        ELSE <<"no number part">>

\* C19: phone and sms fail for an empty number; otherwise the number part of
\* the result is the digits and '+' of the input in their order, every other
\* character removed, and sms adds "?body=" and the percent-encoded message
\* only when there is a message.
C19_PhoneAndSmsNumbers ==
    /\ preset.fn = "phone" =>
          IF preset.args[1] = <<>> THEN Failed(preset.out)
          ELSE /\ preset.out.raised = ""
               /\ NumberPart(preset.out.value, <<"t", "e", "l", ":">>, preset.args[1]) = <<>>
    /\ preset.fn = "sms" =>
          IF preset.args[1] = <<>> THEN Failed(preset.out)
          ELSE LET tail == NumberPart(preset.out.value, <<"s", "m", "s", ":">>, preset.args[1])
                   message == preset.args[2]
               IN  /\ preset.out.raised = ""
                   /\ IF message = <<>> THEN tail = <<>>
                      ELSE /\ StartsWith(tail, <<"?", "b", "o", "d", "y", "=">>)
                           /\ PercentEncodes(SubSeq(tail, 7, Len(tail)), message)

\* phone("+1 (555) 123-4567") = "tel:+15551234567"
C19_Witness ==
    /\ preset.fn = "phone"
    /\ preset.args[1] = <<"+", "1", " ", "(", "5", "5", "5", ")", " ", "1", "2", "3", "-", "4", "5", "6", "7">>
    /\ preset.out.value = <<"t", "e", "l", ":", "+", "1", "5", "5", "5", "1", "2", "3", "4", "5", "6", "7">>

(***************************************************************************)
(* BatchWorker: file names.                                                *)
(***************************************************************************)
\* Word characters: letters, digits and the underscore.
IsWord(c) ==
    c \in {"a", "b", "q", "r", "_", "0", "1", "2", "3", "4", "5", "6", "7",
           "8", "9"}

\* The first 20 characters of item, the characters not in keep replaced by
\* an underscore.
Excerpt(item, keep(_)) ==
    [i \in 1..Min(20, Len(item)) |-> IF keep(item[i]) THEN item[i] ELSE "_"]

RECURSIVE Filled(_, _, _)
\* template with {index} replaced by the position and {content} by content.
Filled(template, position, content) ==
    IF template = <<>> THEN <<>>
    ELSE (CASE Head(template) = "{index}" -> Digits(position)
            [] Head(template) = "{content}" -> content
            [] OTHER -> <<Head(template)>>)
         \o Filled(Tail(template), position, content)

Extension(fmt) ==
    CASE fmt = "PNG" -> <<".", "p", "n", "g">>
      [] fmt = "JPEG" -> <<".", "j", "p", "g">>

\* name, with ext appended unless it already ends with it; same(a, b) says
\* whether an ending a counts as ext b.
WithExtension(name, ext, same(_, _)) ==
    IF /\ Len(name) >= Len(ext)
       /\ same(SubSeq(name, Len(name) - Len(ext) + 1, Len(name)), ext)
    THEN name
    ELSE name \o ext

\* The directory path lies in: what precedes its last "/".
Parent(path) ==
    LET slashes == {i \in 1..Len(path) : path[i] = "/"}
        last_slash == CHOOSE i \in slashes : \A j \in slashes : j <= i
    IN  IF slashes = {} THEN <<>> ELSE SubSeq(path, 1, last_slash - 1)

\* The path the saved item s of worker wk was written to is among the files.
Written(wk, s) == TargetPath(s.name) \in files

\* C20 as stated: the name of a saved item is the template with {index} and
\* {content} filled in, content being the first 20 characters with every
\* non-word character replaced by "_"; the extension is appended unless the
\* name already ends with it; the file is in the output directory.
C20_Original ==
    \A w \in Existing :
        LET wk == workers[w]
        IN  \A k \in 1..Len(wk.saved) :
                LET s == wk.saved[k]
                    content == Excerpt(wk.items[s.idx], IsWord)
                    name == Filled(wk.naming, s.idx, content)
                IN  /\ s.name = WithExtension(name, Extension(wk.fmt),
                                              LAMBDA a, b : a = b)
                    /\ Written(wk, s)
                    /\ Parent(TargetPath(s.name)) = OutputDir

\* C20: the name of a saved item is the template with {index} replaced by
\* the item's 1-based position and {content} by the first 20 characters of
\* the item in which every character that is neither a word character nor a
\* hyphen is replaced by "_"; the extension of the format is appended unless
\* the name already ends with it in any letter case; the file is written to
\* output_dir / name, which is in the output directory when the name has no
\* "/" and is the name itself when the name is an absolute path.
C20_FileNames ==
    \A w \in Existing :
        LET wk == workers[w]
        IN  \A k \in 1..Len(wk.saved) :
                LET s == wk.saved[k]
                    content == Excerpt(wk.items[s.idx],
                                       LAMBDA c : IsWord(c) \/ c = "-")
                    name == Filled(wk.naming, s.idx, content)
                IN  /\ s.idx \in 1..Len(wk.items)
                    /\ k > 1 => wk.saved[k - 1].idx < s.idx
                    /\ s.name = WithExtension(name, Extension(wk.fmt),
                                              LAMBDA a, b : Lower(a) = b)
                    /\ Written(wk, s)
                    /\ (\A i \in 1..Len(s.name) : s.name[i] # "/") =>
                           Parent(TargetPath(s.name)) = OutputDir
                    /\ s.name[1] = "/" => TargetPath(s.name) = s.name

\* Saved by one worker under a template ending in ".PNG": an item with a
\* hyphen and a slash, and an item cut at 20 characters.
C20_Witness ==
    \E w \in Existing :
        LET wk == workers[w]
        IN  /\ wk.naming = NamingUpper
            /\ wk.fmt = "PNG"
            /\ \E k \in 1..Len(wk.saved) :
                  wk.saved[k].name = <<"a", "-", "_", ".", "P", "N", "G">>
            /\ \E k \in 1..Len(wk.saved) :
                  /\ Len(wk.items[wk.saved[k].idx]) > 20
                  /\ Len(wk.saved[k].name) = 24
                  /\ TargetPath(wk.saved[k].name) \in files

(***************************************************************************)
(* BatchWorker: the life of a run.                                         *)
(***************************************************************************)
\* Idle (constructed), Running (started, run not yet returned), and done:
\* Completed or Stopped.
Phase(wk) ==
    CASE wk.pc = "new" -> 0
      [] wk.pc \in {"check", "item", "progress", "finish"} -> 1
      [] wk.pc = "exited" -> 2

IsPrefix(s, t) == Len(s) <= Len(t) /\ SubSeq(t, 1, Len(s)) = s

\* C21: a worker only moves Idle -> Running -> done and never back; whatever
\* the items and whenever stop() is called, a started run terminates, and it
\* emits finished exactly once, as its last event: no finished event before
\* the run is over, and none but the last event of a run that is over.
C21_RunTerminatesOnce ==
    /\ [][/\ Phase(workers'[1]) \in {Phase(workers[1]), Phase(workers[1]) + 1}
          /\ IsPrefix(workers[1].events, workers'[1].events)]_vars
    /\ [](LET wk == workers[1]
          IN  /\ EventsOf(wk, "finished")
                    = (IF Phase(wk) = 2 THEN {Len(wk.events)} ELSE {})
              /\ Phase(wk) = 2 => Finished(wk, wk.success, wk.failed))
    /\ (Phase(workers[1]) = 1) ~> (Phase(workers[1]) = 2)

\* Stopped while the second of three items was in hand, after an error.
C21_Witness ==
    LET wk == workers[1]
    IN  /\ Phase(wk) = 2
        /\ Len(wk.items) = 3
        /\ wk.stopAt = 1
        /\ Count(wk, "progress") = 2
        /\ Count(wk, "error") >= 1
        /\ LastEvent(wk).type = "finished"

(***************************************************************************)
(* BatchWorker: one file for each item saved.                              *)
(***************************************************************************)
\* C26: the items of a batch saved at different positions are saved to
\* different paths, whatever the naming template and the items, so a batch
\* leaves as many files as the success count its finished event reports.
C26_OneFilePerSavedItem ==
    LET wk == workers[1]
    IN  /\ \A j, k \in 1..Len(wk.saved) :
              j # k => TargetPath(wk.saved[j].name) # TargetPath(wk.saved[k].name)
        /\ Phase(wk) = 2 => Cardinality(files) = LastEvent(wk).a

(***************************************************************************)
(* The window and its batches.                                             *)
(***************************************************************************)
\* The user interface thread is blocked in wait().
Waiting == ui.pc \in {"start", "stop", "close"}

\* C28: from the first stop() of a run on, the worker saves at most one more
\* file and emits at most one more progress event, those of the item it had
\* in hand, then emits finished and exits; the stop flag, once set, stays
\* set; and a user interface thread that waits for the worker after stop(),
\* in _batch_stop or in closeEvent, resumes.
C28_StopEndsTheRun ==
    /\ [](\A w \in Existing :
            LET wk == workers[w]
                before == wk.atStop.events
                after == SubSeq(wk.events, Len(before) + 1, Len(wk.events))
            IN  wk.stop =>
                   /\ IsPrefix(before, wk.events)
                   /\ Len(wk.saved) <= wk.atStop.saved + 1
                   /\ Len(SelectSeq(after, LAMBDA e : e.type = "progress")) <= 1
                   /\ Len(SelectSeq(after, LAMBDA e : e.type = "error")) <= 1
                   /\ wk.pc = "exited" => Finished(wk, wk.success, wk.failed))
    /\ [](Waiting => batch_worker # 0 /\ workers[batch_worker].stop)
    /\ [][\A w \in 1..Len(workers) :
            (workers[w].stop /\ workers'[w].pc # "destroyed")
                => workers'[w].stop]_vars
    /\ Waiting ~> ~Waiting

\* Stopped from closeEvent with the second of three items in hand: that item
\* is saved and reported, the third is not touched.
C28_Witness ==
    /\ ui.pc = "closed"
    /\ batch_worker # 0
    /\ LET wk == workers[batch_worker]
       IN  /\ wk.pc = "exited"
           /\ Len(wk.items) = 2
           /\ wk.atStop.saved = 0
           /\ Len(wk.saved) = 1
           /\ Count(wk, "progress") = 1
           /\ Len(wk.atStop.events) = 0

\* C30: between two handlers of a window that is not closing, Start Batch is
\* enabled exactly when batch_worker is None and Stop exactly when it is not;
\* once a batch is over and its finished signal handled Start is enabled; and
\* it is enabled after a _batch_start that returned for want of items or
\* because the folder dialog was cancelled.
C30_ButtonsFollowWorker ==
    ui.pc = "idle" =>
        /\ start_enabled <=> batch_worker = 0
        /\ stop_enabled <=> batch_worker # 0
        /\ (posted = <<>> /\ \A w \in Existing : ~isRunning(workers[w])) =>
              start_enabled
        /\ asked.op \in {"batch", "batch cancelled"} => start_enabled

\* A batch has been run to its end and a second start cancelled.
C30_Witness ==
    /\ ui.pc = "idle"
    /\ asked.op = "batch cancelled"
    /\ Len(workers) = 1
    /\ posted = <<>>
    /\ start_enabled /\ ~stop_enabled

(***************************************************************************)
(* Properties of the image in hand and the image shown.                    *)
(***************************************************************************)
\* C27: current_qr is non-null exactly when the preview shows an image, the
\* two are then the same image, and the image save_qr, copy_image and test_qr
\* use is the image the preview shows.
C27_CurrentQrIsShown ==
    /\ (current_qr # <<>>) <=> (preview # <<>>)
    /\ (preview # <<>>) => (current_qr = preview)
    /\ (written # <<>>) => (written.image = written.shown)

(***************************************************************************)
(* Properties of the colour controls.                                      *)
(***************************************************************************)
\* C24: while transparent_bg is set, config.bg_color is the background colour
\* chosen last, and a click on the Transparent check box, on or off, leaves
\* config.bg_color as it was.
C24_TransparentKeepsBgColor ==
    /\ [](config.transparent_bg => config.bg_color = chosen)
    /\ [][transparent_check' # transparent_check /\ chosen' = chosen
            => config'.bg_color = config.bg_color]_vars

\* Transparency was switched on over a picked colour and off again.
C24_Witness ==
    /\ asked.op = "transparent"
    /\ ~config.transparent_bg
    /\ config.bg_color = Red
    /\ last_bg_color = Red

====
